---- MODULE Spec2Model ----
(***************************************************************************)
(* Model of the request orchestration engine of jarcos_node_network:       *)
(* DeduplicationManager (single-flight table), RetryManager, AuthManager,  *)
(* CacheManager and the ApiClient.request pipeline that composes them.     *)
(* Time is in milliseconds, as in the source.                              *)
(***************************************************************************)
EXTENDS Integers, Naturals, Sequences, FiniteSets, TLC

(***************************************************************************)
(* Bounds of the model                                                     *)
(***************************************************************************)
MaxCalls == 3
MaxNow == 60000
TickMs == 30000
MaxAttemptsBound == 3
MaxRetryRuns == 1
MaxRefreshCalls == 3
MaxCacheOps == 3
MaxClientCalls == 2
MaxFingerprintCalls == 2
MaxRejections == 1
MaxEvictionOps == 5

(***************************************************************************)
(* Program constants                                                       *)
(***************************************************************************)
DedupTimeout == 30000
SweepInterval == 30000

Keys == {"GET:/a::", "GET:/b::"}
Calls == 1..MaxCalls

(***************************************************************************)
(* Request fingerprints: DeduplicationManager.defaultKeyGenerator          *)
(***************************************************************************)
\* method.toUpperCase()
ToUpperCase(m) ==
  CASE m = "get" -> "GET" [] m = "post" -> "POST" [] OTHER -> m

\* JavaScript values passed as data and params: undefined, numbers, booleans,
\* strings, and objects as their properties in insertion order
Undefined == [t |-> "undefined", n |-> 0, s |-> "", props |-> <<>>]
Num(n) == [t |-> "number", n |-> n, s |-> "", props |-> <<>>]
Bool(b) == [t |-> "boolean", n |-> IF b THEN 1 ELSE 0, s |-> "", props |-> <<>>]
Str(s) == [t |-> "string", n |-> 0, s |-> s, props |-> <<>>]
\* props: a sequence of <<name, primitive value>>
Obj(props) == [t |-> "object", n |-> 0, s |-> "", props |-> props]

\* the value is truthy: `data ? ... : ''`
Truthy(v) ==
  CASE v.t = "undefined" -> FALSE
    [] v.t = "number" -> v.n # 0
    [] v.t = "boolean" -> v.n # 0
    [] v.t = "string" -> v.s # ""
    [] OTHER -> TRUE

\* String(n) for the numbers the model uses
NumStr(n) == CASE n = 0 -> "0" [] n = 1 -> "1" [] n = 2 -> "2" [] OTHER -> "3"

\* JSON.stringify of a primitive value
StringifyPrimitive(v) ==
  CASE v.t = "number" -> NumStr(v.n)
    [] v.t = "boolean" -> (IF v.n # 0 THEN "true" ELSE "false")
    [] OTHER -> "\"" \o v.s \o "\""

RECURSIVE StringifyProps(_)
\* the properties of an object in insertion order, joined with ','
StringifyProps(props) ==
  IF props = <<>> THEN ""
  ELSE "\"" \o Head(props)[1] \o "\":" \o StringifyPrimitive(Head(props)[2])
       \o (IF Len(props) > 1 THEN "," ELSE "") \o StringifyProps(Tail(props))

\* JSON.stringify(v)
JsonStringify(v) ==
  IF v.t = "object" THEN "{" \o StringifyProps(v.props) \o "}" ELSE StringifyPrimitive(v)

\* defaultKeyGenerator(method, url, data, params)
DefaultKeyGenerator(method, url, data, params) ==
  ToUpperCase(method) \o ":" \o url
    \o ":" \o (IF Truthy(params) THEN JsonStringify(params) ELSE "")
    \o ":" \o (IF Truthy(data) THEN JsonStringify(data) ELSE "")

\* the requests whose fingerprints are compared
FingerprintRequests ==
  { [method |-> "GET", url |-> "/a", data |-> Undefined, params |-> Undefined],
    [method |-> "GET", url |-> "/b", data |-> Undefined, params |-> Undefined],
    [method |-> "POST", url |-> "/a", data |-> Undefined, params |-> Undefined],
    [method |-> "POST", url |-> "/a", data |-> Obj(<< <<"name", Str("John")>> >>),
     params |-> Undefined],
    [method |-> "POST", url |-> "/a", data |-> Obj(<< <<"name", Str("Jane")>> >>),
     params |-> Undefined],
    [method |-> "POST", url |-> "/a", data |-> Num(0), params |-> Undefined],
    [method |-> "POST", url |-> "/a", data |-> Bool(FALSE), params |-> Undefined],
    [method |-> "GET", url |-> "/a", data |-> Undefined,
     params |-> Obj(<< <<"a", Num(1)>>, <<"b", Num(2)>> >>)],
    [method |-> "GET", url |-> "/a", data |-> Undefined,
     params |-> Obj(<< <<"b", Num(2)>>, <<"a", Num(1)>> >>)] }

\* keyGenerator(method, url, data, params) of a request
Fingerprint(q) == DefaultKeyGenerator(q.method, q.url, q.data, q.params)

(***************************************************************************)
(* RequestValidator and the arguments of ApiClient.request                 *)
(***************************************************************************)
\* url.trim(), for the URLs the model uses
Trim(url) == CASE url = " " -> "" [] url = "  " -> "" [] OTHER -> url

ValidMethods == {"GET", "POST", "PUT", "PATCH", "DELETE", "HEAD", "OPTIONS"}
MethodsWithBody == {"POST", "PUT", "PATCH"}

\* validateUrl throws
ValidateUrl(url) == url = "" \/ Trim(url) = ""

\* validateMethod throws
ValidateMethod(method) == ToUpperCase(method) \notin ValidMethods

\* validateHeaders throws: headers that are not an object, or a header value
\* that is neither a string nor a number
ValidateHeaders(headers) ==
  /\ Truthy(headers)
  /\ \/ headers.t # "object"
     \/ \E i \in 1..Len(headers.props) : headers.props[i][2].t \notin {"string", "number"}

\* validateData throws
ValidateData_Never(data, method) == data # data

ValidateData(data, method) ==
  ToUpperCase(method) \notin MethodsWithBody /\ data # Undefined

\* the field of the ValidationError the four checks of request() throw, in
\* their order; "" when they all pass
ValidationField(q) ==
  IF ValidateUrl(q.url) THEN "url"
  ELSE IF ValidateMethod(q.method) THEN "method"
  ELSE IF ValidateHeaders(q.headers) THEN "headers"
  ELSE IF ValidateData(q.data, q.method) THEN "data"
  ELSE ""

\* the requests the model issues
ClientRequests ==
  {[method |-> "GET", url |-> "/a", headers |-> Undefined, data |-> Undefined]}

\* requests that do not pass the checks: no URL, a blank URL, an unknown
\* method, headers that are a string, a boolean header value, a body on GET
MalformedRequests ==
  { [method |-> "GET", url |-> "", headers |-> Undefined, data |-> Undefined],
    [method |-> "GET", url |-> " ", headers |-> Undefined, data |-> Undefined],
    [method |-> "FETCH", url |-> "/a", headers |-> Undefined, data |-> Undefined],
    [method |-> "GET", url |-> "/a", headers |-> Str("x"), data |-> Undefined],
    [method |-> "GET", url |-> "/a", headers |-> Obj(<< <<"X-Flag", Bool(TRUE)>> >>),
     data |-> Undefined],
    [method |-> "GET", url |-> "/a", headers |-> Undefined,
     data |-> Obj(<< <<"name", Str("John")>> >>)] }

\* a GET and a POST with a body
PolicyRequests ==
  { [method |-> "GET", url |-> "/a", headers |-> Undefined, data |-> Undefined],
    [method |-> "POST", url |-> "/a", headers |-> Undefined,
     data |-> Obj(<< <<"name", Str("John")>> >>)] }

\* defaultKeyGenerator(method, url, config.data, config.params)
DedupKeyOf(q) == DefaultKeyGenerator(q.method, q.url, q.data, Undefined)

\* every key the table is used with
AllKeys ==
  Keys \cup {Fingerprint(q) : q \in FingerprintRequests}
       \cup {DedupKeyOf(q) : q \in ClientRequests \cup MalformedRequests \cup PolicyRequests}

NoEntry == [promise |-> 0, timestamp |-> 0]
NoOutcome == [kind |-> "none", v |-> 0]
\* what the p-th requestExecutor invocation can produce: its own value or error
ExecutorOutcomes(p) == { [kind |-> "value", v |-> p], [kind |-> "error", v |-> p] }
\* new Error('Request was cancelled due to deduplication')
CancelledError == [kind |-> "cancelled", v |-> 0]

VARIABLES
  dedupEnabled,      \* DeduplicationManager.enabled
  now,               \* Date.now()
  pendingRequests,   \* DeduplicationManager.pendingRequests : key -> entry
  ops,               \* one record per requestExecutor invocation / managed promise
  dstats,            \* DeduplicationManager.stats
  cleanupInterval,   \* DeduplicationManager.cleanupInterval is set
  nextSweep,         \* next firing time of the setInterval timer
  calls,             \* one record per executeRequest call
  nextCall,          \* number of executeRequest calls issued so far
  rcfg,              \* RetryManager.config
  rstats,            \* RetryManager.stats
  rpc,               \* position of the executeWithRetry call
  ropts,             \* its options argument
  rloop,             \* its locals: attempt, attemptCount, lastError, totalDelay, delay
  rlog,              \* outcomes of the invocations of operation, in order
  rhook,             \* the calls of config.onRetry, in order
  rresult,           \* what executeWithRetry returned or threw
  rruns,             \* number of executeWithRetry calls made
  acfg,              \* AuthManager.config and ApiClientConfig.enableInterceptors
  accessToken,       \* storage.getToken()
  refreshTok,        \* storage.getRefreshToken()
  refreshPromise,    \* AuthManager.refreshPromise
  refr,              \* one record per performTokenRefresh invocation
  rcalls,            \* one record per refreshToken() call
  nextRefreshCall,   \* number of refreshToken() calls issued so far
  logout,            \* position of the logout() call, and the refresh it waits for
  ccfg,              \* CacheManager.config
  cstore,            \* MemoryCacheAdapter.cache, in insertion order
  cstats,            \* CacheManager.stats
  clast,             \* the last CacheManager call and what it returned
  cwrites,           \* per key, the last set() call and whether its entry was taken out
  cops,              \* number of CacheManager calls made so far
  pipe,              \* per ApiClient.request closure: where its execution stands
  lastRequest        \* the arguments of the last request() call and the calls rejected

dedupVars == <<dedupEnabled, now, pendingRequests, ops, dstats, cleanupInterval,
               nextSweep, calls, nextCall>>

retryVars == <<rcfg, rstats, rpc, ropts, rloop, rlog, rhook, rresult, rruns>>

authVars == <<acfg, accessToken, refreshTok, refreshPromise, refr, rcalls, nextRefreshCall,
              logout>>

cacheVars == <<ccfg, cstore, cstats, clast, cwrites, cops>>

clientVars == <<pipe, lastRequest>>

vars == <<dedupVars, retryVars, authVars, cacheVars, clientVars>>

\* what each component leaves alone
nonDedupVars == <<retryVars, authVars, cacheVars, clientVars>>
nonRetryVars == <<dedupVars, authVars, cacheVars, clientVars>>
nonAuthVars == <<dedupVars, retryVars, cacheVars, clientVars>>
nonCacheVars == <<dedupVars, retryVars, authVars, clientVars>>

(***************************************************************************)
(* DeduplicationManager                                                    *)
(***************************************************************************)
IdleOp == [state |-> "unused", key |-> "", aborted |-> FALSE, outcome |-> NoOutcome,
           managed |-> FALSE, finallyRan |-> FALSE]
\* promise: the promise the call awaits; overlap: the operations with the same
\* key that were running when the call was issued
IdleCall == [promise |-> 0, overlap |-> {}]

InitStats == [totalRequests |-> 0, deduplicatedRequests |-> 0, activeRequests |-> 0,
              deduplicationRate |-> 0]

\* Map.size of pendingRequests
PendingSize(pr) == Cardinality({k \in AllKeys : pr[k] # NoEntry})

\* an operation whose promise has not settled
Running(p) == ops[p].state = "running"
Settled(p) == ops[p].state \in {"fulfilled", "rejected"}

\* constructor
DedupInit ==
  /\ dedupEnabled \in BOOLEAN
  /\ now = 0
  /\ pendingRequests = [k \in AllKeys |-> NoEntry]
  /\ ops = [p \in Calls |-> IdleOp]
  /\ dstats = InitStats
  /\ cleanupInterval = dedupEnabled
  /\ nextSweep = SweepInterval
  /\ calls = [c \in Calls |-> IdleCall]
  /\ nextCall = 0

\* pendingRequests.get(key)
ExistingRequest(k) == pendingRequests[k]

\* updateDeduplicationRate, as the integer part of the percentage
UpdateDeduplicationRate(s) ==
  IF s.totalRequests > 0
    THEN [s EXCEPT !.deduplicationRate = (s.deduplicatedRequests * 100) \div s.totalRequests]
    ELSE s

\* operations with key k whose requestExecutor is in progress
RunningOps(k) == {p \in Calls : ops[p].state = "running" /\ ops[p].key = k}

\* an executeRequest that does not look at this.enabled
ExecuteRequestCall_IgnoresEnabled(c, k) ==
  /\ c = nextCall + 1
  /\ nextCall' = c
  /\ IF ExistingRequest(k) # NoEntry
       THEN /\ dstats' = UpdateDeduplicationRate(
                   [dstats EXCEPT !.totalRequests = @ + 1,
                                  !.deduplicatedRequests = @ + 1])
            /\ calls' = [calls EXCEPT ![c] = [promise |-> ExistingRequest(k).promise,
                                               overlap |-> RunningOps(k)]]
            /\ UNCHANGED <<pendingRequests, ops>>
       ELSE /\ ops' = [ops EXCEPT ![c] = [IdleOp EXCEPT !.state = "running", !.key = k,
                                                    !.managed = TRUE]]
            /\ pendingRequests' = [pendingRequests EXCEPT ![k] =
                                      [promise |-> c, timestamp |-> now]]
            /\ dstats' = [dstats EXCEPT !.totalRequests = @ + 1,
                                        !.activeRequests = PendingSize(pendingRequests')]
            /\ calls' = [calls EXCEPT ![c] = [promise |-> c, overlap |-> RunningOps(k)]]
  /\ UNCHANGED <<dedupEnabled, now, cleanupInterval, nextSweep>>

\* executeRequest(method, url, requestExecutor, data, params) for call c, key k:
\* what it does to the manager
ExecuteRequestCall(c, k) ==
  /\ c = nextCall + 1
  /\ nextCall' = c
  /\ IF ~dedupEnabled
       THEN \* return requestExecutor()
            /\ ops' = [ops EXCEPT ![c] = [IdleOp EXCEPT !.state = "running", !.key = k]]
            /\ calls' = [calls EXCEPT ![c] = [promise |-> c, overlap |-> RunningOps(k)]]
            /\ UNCHANGED <<pendingRequests, dstats>>
       ELSE IF ExistingRequest(k) # NoEntry
         THEN \* return existingRequest.promise
              /\ dstats' = UpdateDeduplicationRate(
                     [dstats EXCEPT !.totalRequests = @ + 1,
                                    !.deduplicatedRequests = @ + 1])
              /\ calls' = [calls EXCEPT ![c] = [promise |-> ExistingRequest(k).promise,
                                                 overlap |-> RunningOps(k)]]
              /\ UNCHANGED <<pendingRequests, ops>>
         ELSE \* createManagedRequest, pendingRequests.set, promise.finally
              /\ ops' = [ops EXCEPT ![c] = [IdleOp EXCEPT !.state = "running", !.key = k,
                                                      !.managed = TRUE]]
              /\ pendingRequests' = [pendingRequests EXCEPT ![k] =
                                        [promise |-> c, timestamp |-> now]]
              /\ dstats' = [dstats EXCEPT !.totalRequests = @ + 1,
                                          !.activeRequests = PendingSize(pendingRequests')]
              /\ calls' = [calls EXCEPT ![c] = [promise |-> c, overlap |-> RunningOps(k)]]
  /\ UNCHANGED <<dedupEnabled, now, cleanupInterval, nextSweep>>

\* executeRequest with an operation that settles on its own
ExecuteRequest(c, k) ==
  /\ ExecuteRequestCall(c, k)
  /\ UNCHANGED nonDedupVars

\* createManagedRequest: the outcome of the managed promise for executor outcome o
ManagedOutcome(p, o) ==
  IF o.kind = "error" /\ ops[p].aborted THEN CancelledError ELSE o

\* the requestExecutor of operation p settles with outcome o
OpSettle(p, o) ==
  /\ Running(p)
  /\ ops' = [ops EXCEPT ![p].state = IF (IF ops[p].managed THEN ManagedOutcome(p, o) ELSE o).kind = "value"
                                       THEN "fulfilled" ELSE "rejected",
                        ![p].outcome = IF ops[p].managed THEN ManagedOutcome(p, o) ELSE o]
  /\ UNCHANGED <<dedupEnabled, now, pendingRequests, dstats, cleanupInterval, nextSweep,
                 calls, nextCall>>
  /\ UNCHANGED nonDedupVars

\* a finally callback that leaves the entry in the table
FinallyDelete_Keep(k) == pendingRequests

\* the table after the promise.finally callback of an operation with key k
FinallyDelete(k) == [pendingRequests EXCEPT ![k] = NoEntry]

\* promise.finally(() => { pendingRequests.delete(key); ... })
FinallyCallback(p) ==
  /\ Settled(p) /\ ops[p].managed /\ ~ops[p].finallyRan
  /\ pendingRequests' = FinallyDelete(ops[p].key)
  /\ dstats' = [dstats EXCEPT !.activeRequests = PendingSize(pendingRequests')]
  /\ ops' = [ops EXCEPT ![p].finallyRan = TRUE]
  /\ UNCHANGED <<dedupEnabled, now, cleanupInterval, nextSweep, calls, nextCall>>
  /\ UNCHANGED nonDedupVars

\* the call has been issued
Issued(c) == calls[c].promise # 0

\* the awaiting caller of call c has resumed: its promise has settled and the
\* finally callback, registered on the promise before any caller's
\* continuation, has run
Returned(c) ==
  /\ Issued(c)
  /\ Settled(calls[c].promise)
  /\ ops[calls[c].promise].managed => ops[calls[c].promise].finallyRan

\* what the caller of call c receives
Result(c) == ops[calls[c].promise].outcome

\* no finally callback is waiting to run: a timer callback is a task, and a task
\* starts only when the microtask queue is empty
NoPendingFinally == \A p \in Calls : ~(Settled(p) /\ ops[p].managed /\ ~ops[p].finallyRan)

\* entries the staleness sweep evicts
Expired(k) == pendingRequests[k] # NoEntry /\ now - pendingRequests[k].timestamp > DedupTimeout

\* cleanupExpiredRequests, fired by setInterval
CleanupExpiredRequests ==
  /\ cleanupInterval
  /\ NoPendingFinally
  /\ now >= nextSweep
  /\ nextSweep' = nextSweep + SweepInterval
  /\ ops' = [p \in Calls |->
               IF \E k \in AllKeys : Expired(k) /\ pendingRequests[k].promise = p
                 THEN [ops[p] EXCEPT !.aborted = TRUE] ELSE ops[p]]
  /\ pendingRequests' = [k \in AllKeys |-> IF Expired(k) THEN NoEntry ELSE pendingRequests[k]]
  /\ dstats' = IF \E k \in AllKeys : Expired(k)
                 THEN [dstats EXCEPT !.activeRequests = PendingSize(pendingRequests')]
                 ELSE dstats
  /\ UNCHANGED <<dedupEnabled, now, cleanupInterval, calls, nextCall>>
  /\ UNCHANGED nonDedupVars

\* a clear() that leaves activeRequests as it was
Clear_StaleActive ==
  /\ cleanupInterval \/ \E k \in AllKeys : pendingRequests[k] # NoEntry
  /\ ops' = [p \in Calls |->
               IF \E k \in AllKeys : pendingRequests[k] # NoEntry /\ pendingRequests[k].promise = p
                 THEN [ops[p] EXCEPT !.aborted = TRUE] ELSE ops[p]]
  /\ pendingRequests' = [k \in AllKeys |-> NoEntry]
  /\ cleanupInterval' = FALSE
  /\ UNCHANGED <<dedupEnabled, now, nextSweep, calls, nextCall, dstats>>
  /\ UNCHANGED nonDedupVars

\* clear()
Clear ==
  /\ cleanupInterval \/ \E k \in AllKeys : pendingRequests[k] # NoEntry
  /\ ops' = [p \in Calls |->
               IF \E k \in AllKeys : pendingRequests[k] # NoEntry /\ pendingRequests[k].promise = p
                 THEN [ops[p] EXCEPT !.aborted = TRUE] ELSE ops[p]]
  /\ pendingRequests' = [k \in AllKeys |-> NoEntry]
  /\ dstats' = [dstats EXCEPT !.activeRequests = 0]
  /\ cleanupInterval' = FALSE
  /\ UNCHANGED <<dedupEnabled, now, nextSweep, calls, nextCall>>
  /\ UNCHANGED nonDedupVars

\* time passes; a due interval timer fires first
Tick ==
  /\ now + TickMs <= MaxNow
  /\ NoPendingFinally
  /\ ~(cleanupInterval /\ now >= nextSweep)
  /\ now' = now + TickMs
  /\ UNCHANGED <<dedupEnabled, pendingRequests, ops, dstats, cleanupInterval, nextSweep,
                 calls, nextCall>>
  /\ UNCHANGED nonDedupVars

(***************************************************************************)
(* RetryManager                                                            *)
(***************************************************************************)
Undef == -1
NoError == [type |-> "none", code |-> "", status |-> 0, data |-> ""]

\* errors the operation can throw: a raw connection error, and ApiErrors as
\* ApiError.fromAxiosError builds them from a 500 and a 404 response and from
\* an error without response
OperationErrors ==
  { [type |-> "AxiosError", code |-> "ECONNRESET", status |-> 0, data |-> ""],
    [type |-> "ApiError", code |-> "SERVER_ERROR", status |-> 500, data |-> "body500"],
    [type |-> "ApiError", code |-> "NOT_FOUND", status |-> 404, data |-> "body404"],
    [type |-> "ApiError", code |-> "NETWORK_ERROR", status |-> 0, data |-> ""] }

RetryStatusCodes == {408, 429, 500, 502, 503, 504}

\* defaultRetryCondition
DefaultRetryCondition(e) ==
  IF e.code \in {"ENOTFOUND", "ECONNRESET", "ECONNREFUSED", "ETIMEDOUT"} THEN TRUE
  ELSE IF e.status # 0 THEN e.status \in rcfg.retryStatusCodes
  ELSE IF e.code # "" THEN e.code \in {"NETWORK_ERROR", "TIMEOUT_ERROR",
                                        "SERVICE_UNAVAILABLE", "SERVER_ERROR"}
  ELSE FALSE

\* options.retryCondition ?? this.config.retryCondition
RetryCondition(o, e) ==
  IF o.retryCondition = "never" THEN FALSE ELSE DefaultRetryCondition(e)

\* options.maxAttempts ?? this.config.maxAttempts
EffectiveMaxAttempts(o) == IF o.maxAttempts = Undef THEN rcfg.maxAttempts ELSE o.maxAttempts

RECURSIVE Pow(_, _)
Pow(b, n) == IF n = 0 THEN 1 ELSE b * Pow(b, n - 1)

Min(a, b) == IF a <= b THEN a ELSE b
Max(a, b) == IF a >= b THEN a ELSE b

\* jitter of Math.random() = 0, 0.5 and just below 1, in percent of the delay
JitterPercents == {-10, 0, 9}

\* addJitter, for a jitter of j percent
AddJitter(delay, j) == Max(0, delay + (delay * j) \div 100)

\* calculateDelay(attempt, options), for a jitter of j percent
CalculateDelay_JitterAfterCap(attempt, o, j) ==
  IF o.retryDelay # 0 THEN Min(o.retryDelay, rcfg.maxDelay)
  ELSE LET delay == Min(rcfg.baseDelay * Pow(rcfg.backoffFactor, attempt - 1), rcfg.maxDelay)
       IN  IF rcfg.jitter THEN AddJitter(delay, j) ELSE delay

CalculateDelay(attempt, o, j) ==
  IF o.retryDelay # 0 THEN Min(o.retryDelay, rcfg.maxDelay)
  ELSE LET delay == rcfg.baseDelay * Pow(rcfg.backoffFactor, attempt - 1)
       IN  Min(IF rcfg.jitter THEN AddJitter(delay, j) ELSE delay, rcfg.maxDelay)

\* a RetryExhaustedError that keeps only a generic message of the last error
RetryExhaustedError_Generic(attempts, lastError) ==
  [kind |-> "RetryExhaustedError", attempts |-> attempts,
   lastError |-> [lastError EXCEPT !.status = 0, !.data = ""], value |-> 0]

\* new RetryExhaustedError(attempts, lastError, requestId); its constructor
\* reads lastError.message and throws a TypeError when lastError is undefined
RetryExhaustedError(attempts, lastError) ==
  IF lastError = NoError
    THEN [kind |-> "TypeError", attempts |-> 0, lastError |-> NoError, value |-> 0]
    ELSE [kind |-> "RetryExhaustedError", attempts |-> attempts, lastError |-> lastError,
          value |-> 0]

NoResult == [kind |-> "none", attempts |-> 0, lastError |-> NoError, value |-> 0]
ValueResult(v) == [kind |-> "value", attempts |-> 0, lastError |-> NoError, value |-> v]
ThrownResult(e) == [kind |-> "error", attempts |-> 0, lastError |-> e, value |-> 0]

InitRetryStats == [totalAttempts |-> 0, successfulRetries |-> 0, failedRetries |-> 0,
                   averageRetryDelay |-> 0, maxRetryDelay |-> 0]
NoOptions == [enabled |-> FALSE, maxAttempts |-> Undef, retryDelay |-> 0,
              retryCondition |-> "undefined", baseDelay |-> Undef]
IdleLoop == [attempt |-> 0, attemptCount |-> 0, lastError |-> NoError, totalDelay |-> 0,
             delay |-> 0]

\* the per-call RetryOptions the model draws from; baseDelay is not a field of
\* RetryOptions, a caller passes it as in { enabled, maxAttempts, baseDelay }
RetryOptionSets ==
  [enabled : BOOLEAN, maxAttempts : {Undef} \cup (0..MaxAttemptsBound),
   retryDelay : {0, 500}, retryCondition : {"undefined", "never"},
   baseDelay : {Undef, 2000}]

\* constructor, with the configurations the model draws from
RetryInit ==
  /\ rcfg \in [enabled : BOOLEAN, maxAttempts : 1..MaxAttemptsBound, backoffFactor : {2},
               baseDelay : {1000}, maxDelay : {1500, 30000}, jitter : BOOLEAN,
               retryStatusCodes : {RetryStatusCodes}]
  /\ rstats = InitRetryStats
  /\ rpc = "idle"
  /\ ropts = NoOptions
  /\ rloop = IdleLoop
  /\ rlog = <<>>
  /\ rhook = <<>>
  /\ rresult = NoResult
  /\ rruns = 0

\* the retry manager is not exercised
RetryQuiet ==
  /\ rcfg = [enabled |-> FALSE, maxAttempts |-> 1, backoffFactor |-> 2, baseDelay |-> 1000,
             maxDelay |-> 30000, jitter |-> FALSE, retryStatusCodes |-> RetryStatusCodes]
  /\ rstats = InitRetryStats
  /\ rpc = "idle"
  /\ ropts = NoOptions
  /\ rloop = IdleLoop
  /\ rlog = <<>>
  /\ rhook = <<>>
  /\ rresult = NoResult
  /\ rruns = 0

\* updateStats(delay)
UpdateStats(st, delay) ==
  [st EXCEPT !.averageRetryDelay =
               (st.averageRetryDelay * st.successfulRetries + delay) \div (st.successfulRetries + 1),
             !.maxRetryDelay = Max(st.maxRetryDelay, delay)]

\* executeWithRetry(operation, options): up to the first await
RetryExecute(o) ==
  /\ rpc \in {"idle", "done"}
  /\ rruns < MaxRetryRuns
  /\ rruns' = rruns + 1
  /\ ropts' = o
  /\ rlog' = <<>>
  /\ rhook' = <<>>
  /\ IF ~rcfg.enabled /\ ~o.enabled
       THEN \* return operation()
            /\ rpc' = "passthrough"
            /\ rloop' = IdleLoop
            /\ rresult' = NoResult
            /\ UNCHANGED rstats
       ELSE IF 1 <= EffectiveMaxAttempts(o)
         THEN \* first iteration of the loop, up to await operation()
              /\ rpc' = "operation"
              /\ rloop' = [IdleLoop EXCEPT !.attempt = 1, !.attemptCount = 1]
              /\ rstats' = [rstats EXCEPT !.totalAttempts = @ + 1]
              /\ rresult' = NoResult
         ELSE \* the loop body never runs
              /\ rpc' = "done"
              /\ rloop' = IdleLoop
              /\ rresult' = RetryExhaustedError(0, NoError)
              /\ UNCHANGED rstats
  /\ UNCHANGED <<rcfg>>
  /\ UNCHANGED nonRetryVars

\* the value the n-th invocation of operation resolves with
OperationValue(n) == n

\* operation() resolves
RetryOperationSucceeds ==
  /\ rpc \in {"operation", "passthrough"}
  /\ rlog' = Append(rlog, ValueResult(OperationValue(Len(rlog) + 1)))
  /\ rresult' = ValueResult(OperationValue(Len(rlog) + 1))
  /\ rpc' = "done"
  /\ rstats' = IF rpc = "operation" /\ rloop.attempt > 1
                 THEN [rstats EXCEPT !.successfulRetries = @ + 1] ELSE rstats
  /\ UNCHANGED <<rcfg, ropts, rloop, rhook, rruns>>
  /\ UNCHANGED nonRetryVars

\* a hook that is given the number of the attempt about to start
OnRetry_NextAttempt(hook, attempt, e) == Append(hook, <<attempt + 1, e>>)

\* this.config.onRetry(attempt - 1, lastError): the calls the hook has seen
OnRetry(hook, attempt, e) == Append(hook, <<attempt, e>>)

\* a loop that consults only the attempt count
LoopStops_NoPredicate(attempt, e) == attempt = EffectiveMaxAttempts(ropts)

\* the loop stops after the error of this attempt
LoopStops(attempt, e) ==
  attempt = EffectiveMaxAttempts(ropts) \/ ~RetryCondition(ropts, e)

\* operation() rejects with error e; j is the jitter of the next delay
RetryOperationFails(e, j) ==
  /\ rpc \in {"operation", "passthrough"}
  /\ rlog' = Append(rlog, ThrownResult(e))
  /\ IF rpc = "passthrough"
       THEN /\ rresult' = ThrownResult(e)
            /\ rpc' = "done"
            /\ UNCHANGED <<rloop, rstats, rhook>>
       ELSE IF LoopStops(rloop.attempt, e)
         THEN \* break; throw new RetryExhaustedError(attemptCount, lastError)
              /\ rloop' = [rloop EXCEPT !.lastError = e]
              /\ rstats' = IF rloop.attempt > 1
                             THEN [rstats EXCEPT !.failedRetries = @ + 1] ELSE rstats
              /\ rresult' = RetryExhaustedError(rloop.attemptCount, e)
              /\ rpc' = "done"
              /\ UNCHANGED rhook
         ELSE \* next iteration: calculateDelay, onRetry, await this.delay(delay)
              LET next == rloop.attempt + 1
                  delay == CalculateDelay(next - 1, ropts, j)
              IN  /\ rloop' = [attempt |-> next, attemptCount |-> next, lastError |-> e,
                               totalDelay |-> rloop.totalDelay + delay, delay |-> delay]
                  /\ rstats' = [rstats EXCEPT !.totalAttempts = @ + 1]
                  /\ rhook' = OnRetry(rhook, next - 1, e)
                  /\ rresult' = NoResult
                  /\ rpc' = "delay"
  /\ UNCHANGED <<rcfg, ropts, rruns>>
  /\ UNCHANGED nonRetryVars

\* the delay has elapsed: updateStats(delay), then operation() is invoked
RetryDelayElapsed ==
  /\ rpc = "delay"
  /\ rstats' = UpdateStats(rstats, rloop.delay)
  /\ rpc' = "operation"
  /\ UNCHANGED <<rcfg, ropts, rloop, rlog, rhook, rresult, rruns>>
  /\ UNCHANGED nonRetryVars

RetryNext ==
  \/ \E o \in RetryOptionSets : RetryExecute(o)
  \/ RetryOperationSucceeds
  \/ \E e \in OperationErrors, j \in JitterPercents : RetryOperationFails(e, j)
  \/ RetryDelayElapsed

(***************************************************************************)
(* AuthManager                                                             *)
(***************************************************************************)
RefreshCalls == 1..MaxRefreshCalls

\* a stored access token: id 0 is null; expSoon is isTokenExpiringSoon(token)
NoToken == [id |-> 0, expSoon |-> FALSE]
InitialToken(soon) == [id |-> 1, expSoon |-> soon]
\* the access token in the answer of the refresh endpoint to refresh r
ServerToken(r) == [id |-> r + 1, expSoon |-> FALSE]

IdleRefresh == [state |-> "unused", sent |-> 0, token |-> NoToken, error |-> "",
                finallyRan |-> FALSE, left |-> <<0, 0>>]
IdleRefreshCall == [promise |-> 0, inflight |-> {}, thrown |-> ""]
\* logout() has not been called; posts counts the requests sent to the logout
\* endpoint
NoLogout == [pc |-> "idle", waitsOn |-> 0, posts |-> 0]

\* answers of the refresh endpoint: a CredentialSet with or without a new
\* refresh token, an error status, or no response
RefreshAnswers ==
  { [status |-> 200, refreshToken |-> TRUE], [status |-> 200, refreshToken |-> FALSE],
    [status |-> 401, refreshToken |-> FALSE], [status |-> 500, refreshToken |-> FALSE],
    [status |-> 0, refreshToken |-> FALSE] }

\* constructor, and the credentials stored by an earlier login
AuthInit ==
  /\ acfg \in [enabled : BOOLEAN, autoRefresh : BOOLEAN, interceptors : BOOLEAN]
  /\ accessToken \in {NoToken, InitialToken(FALSE), InitialToken(TRUE)}
  /\ refreshTok \in {0, 1}
  /\ refreshPromise = 0
  /\ logout = NoLogout
  /\ refr = [r \in RefreshCalls |-> IdleRefresh]
  /\ rcalls = [c \in RefreshCalls |-> IdleRefreshCall]
  /\ nextRefreshCall = 0

\* the AuthManager is not exercised
AuthQuiet ==
  /\ acfg = [enabled |-> FALSE, autoRefresh |-> TRUE, interceptors |-> TRUE]
  /\ accessToken = NoToken
  /\ refreshTok = 0
  /\ refreshPromise = 0
  /\ logout = NoLogout
  /\ refr = [r \in RefreshCalls |-> IdleRefresh]
  /\ rcalls = [c \in RefreshCalls |-> IdleRefreshCall]
  /\ nextRefreshCall = 0

\* a performTokenRefresh whose promise has not settled
RefreshInFlight(r) == refr[r].state \in {"posting", "blockedRequest", "blockedResponse"}
RefreshSettled(r) == refr[r].state \in {"fulfilled", "rejected"}

\* a refreshToken() that never finds a refresh in flight
ExistingRefresh_Never == refreshPromise - refreshPromise

\* if (this.refreshPromise) return this.refreshPromise
ExistingRefresh == refreshPromise

\* createAuthInterceptor / getAccessToken on the refresh request itself: the
\* interceptor calls refreshToken(), which returns the refresh in flight
RequestInterceptorAwaitsRefresh ==
  /\ acfg.interceptors
  /\ accessToken # NoToken
  /\ acfg.autoRefresh /\ accessToken.expSoon

\* refreshToken(), call c; the refresh it starts has the id of the call
RefreshTokenCall(c) ==
  /\ c = nextRefreshCall + 1
  /\ nextRefreshCall' = c
  /\ IF ~acfg.enabled
       THEN \* throw new AuthError('Authentication disabled')
            /\ rcalls' = [rcalls EXCEPT ![c] = [IdleRefreshCall EXCEPT
                                                  !.thrown = "Authentication disabled"]]
            /\ UNCHANGED <<refreshPromise, refr>>
       ELSE IF ExistingRefresh # 0
         THEN /\ rcalls' = [rcalls EXCEPT ![c] =
                    [promise |-> ExistingRefresh, thrown |-> "",
                     inflight |-> {r \in RefreshCalls : RefreshInFlight(r)}]]
              /\ UNCHANGED <<refreshPromise, refr>>
         ELSE \* this.refreshPromise = this.performTokenRefresh()
              /\ refreshPromise' = c
              /\ rcalls' = [rcalls EXCEPT ![c] =
                    [promise |-> c, thrown |-> "",
                     inflight |-> {r \in RefreshCalls : RefreshInFlight(r)}]]
              /\ refr' = [refr EXCEPT ![c] =
                    IF refreshTok = 0
                      THEN \* thrown before the try block: nothing is cleared
                           [IdleRefresh EXCEPT !.state = "rejected",
                              !.error = "No refresh token available",
                              !.left = <<accessToken.id, refreshTok>>]
                      ELSE IF RequestInterceptorAwaitsRefresh
                        THEN [IdleRefresh EXCEPT !.state = "blockedRequest"]
                        ELSE [IdleRefresh EXCEPT !.state = "posting", !.sent = 1]]
  /\ UNCHANGED <<acfg, accessToken, refreshTok>>

\* refreshToken(), called through ApiClient.refreshToken()
RefreshToken(c) ==
  /\ RefreshTokenCall(c)
  /\ UNCHANGED logout
  /\ UNCHANGED nonAuthVars

\* the auth response interceptor handles the 401 of the refresh request:
\* handleUnauthorized calls refreshToken(), which returns the refresh in flight
ResponseInterceptorAwaitsRefresh(a) ==
  acfg.interceptors /\ a.status = 401

\* the refresh endpoint answers the request of refresh r
RefreshAnswer(r, a) ==
  /\ refr[r].state = "posting"
  /\ IF a.status = 200
       THEN \* setTokens({accessToken, refreshToken: authData.refreshToken ?? refreshToken})
            /\ accessToken' = ServerToken(r)
            /\ refreshTok' = IF a.refreshToken THEN r + 1 ELSE refreshTok
            /\ refr' = [refr EXCEPT ![r].state = "fulfilled", ![r].token = ServerToken(r),
                                    ![r].left = <<ServerToken(r).id, refreshTok'>>]
       ELSE IF ResponseInterceptorAwaitsRefresh(a)
         THEN /\ refr' = [refr EXCEPT ![r].state = "blockedResponse"]
              /\ UNCHANGED <<accessToken, refreshTok>>
         ELSE \* catch: clearTokens(); throw new AuthError(...)
              /\ accessToken' = NoToken
              /\ refreshTok' = 0
              /\ refr' = [refr EXCEPT ![r].state = "rejected",
                                      ![r].error = "Token refresh failed",
                                      ![r].left = <<0, 0>>]
  /\ UNCHANGED <<acfg, logout, refreshPromise, rcalls, nextRefreshCall>>
  /\ UNCHANGED nonAuthVars

\* finally { this.refreshPromise = undefined } of the call that started r
RefreshFinally(r) ==
  /\ RefreshSettled(r) /\ ~refr[r].finallyRan
  /\ refreshPromise' = 0
  /\ refr' = [refr EXCEPT ![r].finallyRan = TRUE]
  /\ UNCHANGED <<acfg, logout, accessToken, refreshTok, rcalls, nextRefreshCall>>
  /\ UNCHANGED nonAuthVars

\* time passes: the stored access token comes within refreshThreshold of expiry
TokenAges ==
  /\ accessToken # NoToken /\ ~accessToken.expSoon
  /\ accessToken' = [accessToken EXCEPT !.expSoon = TRUE]
  /\ UNCHANGED <<acfg, logout, refreshTok, refreshPromise, refr, rcalls, nextRefreshCall>>
  /\ UNCHANGED nonAuthVars

\* statuses the logout endpoint answers with; 0 is no response
LogoutStatuses == {200, 401, 500, 0}

\* logout(): the POST to the logout endpoint enters the request interceptors;
\* createAuthInterceptor awaits getAccessToken(), which refreshes an expiring
\* token first
Logout ==
  /\ logout.pc = "idle"
  /\ IF acfg.interceptors /\ acfg.enabled /\ accessToken # NoToken
        /\ acfg.autoRefresh /\ accessToken.expSoon
       THEN /\ nextRefreshCall < MaxRefreshCalls
            /\ RefreshTokenCall(nextRefreshCall + 1)
            /\ logout' = [pc |-> "tokenWait", posts |-> 0,
                          waitsOn |-> rcalls'[nextRefreshCall + 1].promise]
       ELSE /\ logout' = [pc |-> "posting", waitsOn |-> 0, posts |-> 1]
            /\ UNCHANGED <<acfg, accessToken, refreshTok, refreshPromise, refr, rcalls,
                           nextRefreshCall>>
  /\ UNCHANGED nonAuthVars

\* the refresh the logout request waits for has settled: the request goes
\* out; after a failed refresh getAccessToken has cleared the tokens
LogoutTokenSettled ==
  /\ logout.pc = "tokenWait"
  /\ RefreshSettled(logout.waitsOn)
  /\ logout' = [pc |-> "posting", waitsOn |-> 0, posts |-> 1]
  /\ IF refr[logout.waitsOn].state = "fulfilled"
       THEN UNCHANGED <<accessToken, refreshTok>>
       ELSE accessToken' = NoToken /\ refreshTok' = 0
  /\ UNCHANGED <<acfg, refreshPromise, refr, rcalls, nextRefreshCall>>
  /\ UNCHANGED nonAuthVars

\* the logout endpoint answers: a 401 is handled by handleUnauthorized, which
\* refreshes; any other answer ends the try block, and clearTokens() runs
LogoutAnswer(status) ==
  /\ logout.pc = "posting"
  /\ IF status = 401 /\ acfg.interceptors /\ acfg.enabled
       THEN /\ nextRefreshCall < MaxRefreshCalls
            /\ RefreshTokenCall(nextRefreshCall + 1)
            /\ logout' = [logout EXCEPT !.pc = "refreshWait",
                                         !.waitsOn = rcalls'[nextRefreshCall + 1].promise]
       ELSE /\ accessToken' = NoToken
            /\ refreshTok' = 0
            /\ logout' = [logout EXCEPT !.pc = "done", !.waitsOn = 0]
            /\ UNCHANGED <<acfg, refreshPromise, refr, rcalls, nextRefreshCall>>
  /\ UNCHANGED nonAuthVars

\* the refresh started for the 401 of the logout request has settled: the
\* request is replayed, or handleUnauthorized clears the tokens and rejects,
\* logout() ignores the error and clears the tokens
LogoutRefreshSettled ==
  /\ logout.pc = "refreshWait"
  /\ RefreshSettled(logout.waitsOn)
  /\ IF refr[logout.waitsOn].state = "fulfilled"
       THEN /\ logout' = [pc |-> "replaying", waitsOn |-> 0, posts |-> logout.posts + 1]
            /\ UNCHANGED <<accessToken, refreshTok>>
       ELSE /\ accessToken' = NoToken
            /\ refreshTok' = 0
            /\ logout' = [logout EXCEPT !.pc = "done", !.waitsOn = 0]
  /\ UNCHANGED <<acfg, refreshPromise, refr, rcalls, nextRefreshCall>>
  /\ UNCHANGED nonAuthVars

\* the logout endpoint answers the replay: whatever the answer, clearTokens()
LogoutReplayAnswer(status) ==
  /\ logout.pc = "replaying"
  /\ accessToken' = NoToken
  /\ refreshTok' = 0
  /\ logout' = [logout EXCEPT !.pc = "done", !.waitsOn = 0]
  /\ UNCHANGED <<acfg, refreshPromise, refr, rcalls, nextRefreshCall>>
  /\ UNCHANGED nonAuthVars

LogoutNext ==
  \/ \E c \in RefreshCalls : RefreshToken(c)
  \/ \E r \in RefreshCalls, a \in RefreshAnswers : RefreshAnswer(r, a)
  \/ \E r \in RefreshCalls : RefreshFinally(r)
  \/ TokenAges
  \/ Logout
  \/ LogoutTokenSettled
  \/ \E status \in LogoutStatuses : LogoutAnswer(status)
  \/ LogoutRefreshSettled
  \/ \E status \in LogoutStatuses : LogoutReplayAnswer(status)

AuthNext ==
  \/ \E c \in RefreshCalls : RefreshToken(c)
  \/ \E r \in RefreshCalls, a \in RefreshAnswers : RefreshAnswer(r, a)
  \/ \E r \in RefreshCalls : RefreshFinally(r)
  \/ TokenAges

(***************************************************************************)
(* CacheManager and MemoryCacheAdapter                                     *)
(***************************************************************************)
KeyPrefix == "api_cache_"
CacheUrls == {"/a", "/b"}
CacheData == {"r1", "r2"}
Null == "null"

\* buildCacheKey(url, method, params, body): the parts that are joined with '|';
\* params is the sorted 'k=v&...' string, "" when there are none
BuildCacheKey(url, method, params, body) ==
  <<ToUpperCase(method), url>>
    \o (IF params # "" THEN <<"params:", params>> ELSE <<>>)
    \o (IF body # "" THEN <<"body:", body>> ELSE <<>>)

\* buildKey(key)
BuildKey(key) == <<KeyPrefix>> \o key

CacheKeys == {BuildCacheKey(u, "GET", "", "") : u \in CacheUrls}

\* the keys the eviction order is checked with, and every key of the model
EvictionKeys == {BuildCacheKey(u, "GET", "", "") : u \in {"/a", "/b", "/c"}}
AllCacheKeys == CacheKeys \cup EvictionKeys

\* serialize = JSON.stringify, deserialize = JSON.parse
SerializeData(d) == <<"json", d>>
DeserializeData(x) == IF x[1] = "json" THEN x[2] ELSE x

InitCacheStats == [hits |-> 0, misses |-> 0, sets |-> 0, deletes |-> 0, size |-> 0, hitRate |-> 0]
NoCacheCall == [op |-> "none", key |-> <<>>, result |-> Null]
NoWrite == [at |-> 0, ttl |-> 0, data |-> Null, live |-> FALSE]

\* options.ttl of a set() call; Undef when the caller gives none
CacheTTLOptions == {Undef, 0, TickMs}

CacheInit ==
  /\ ccfg \in [enabled : BOOLEAN, defaultTTL : {TickMs, 2 * TickMs}, maxSize : {1, 2}]
  /\ cstore = <<>>
  /\ cstats = InitCacheStats
  /\ clast = NoCacheCall
  /\ cwrites = [k \in AllCacheKeys |-> NoWrite]
  /\ cops = 0

\* the cache is not exercised
CacheQuiet ==
  /\ ccfg = [enabled |-> FALSE, defaultTTL |-> TickMs, maxSize |-> 1]
  /\ cstore = <<>>
  /\ cstats = InitCacheStats
  /\ clast = NoCacheCall
  /\ cwrites = [k \in AllCacheKeys |-> NoWrite]
  /\ cops = 0

\* MemoryCacheAdapter
AdapterKeys(store) == {store[i].key : i \in 1..Len(store)}
AdapterHas(store, ck) == ck \in AdapterKeys(store)
AdapterIndex(store, ck) == CHOOSE i \in 1..Len(store) : store[i].key = ck
AdapterGet(store, ck) == store[AdapterIndex(store, ck)]
AdapterDelete(store, ck) == SelectSeq(store, LAMBDA e : e.key # ck)
\* the key that set(ck, ...) removes to make room, if any
AdapterEvicts(store, ck) ==
  IF Len(store) >= ccfg.maxSize /\ ~AdapterHas(store, ck) /\ Len(store) > 0
    THEN {Head(store).key} ELSE {}
AdapterSet_MoveToEnd(store, ck, entry) ==
  LET room == IF AdapterEvicts(store, ck) # {} THEN Tail(store) ELSE store
  IN  Append(AdapterDelete(room, ck), entry)

AdapterSet(store, ck, entry) ==
  LET room == IF AdapterEvicts(store, ck) # {} THEN Tail(store) ELSE store
  IN  IF AdapterHas(room, ck)
        THEN [i \in 1..Len(room) |-> IF room[i].key = ck THEN entry ELSE room[i]]
        ELSE Append(room, entry)

\* Date.now() > entry.expiresAt
IsExpired(entry) == now > entry.expiresAt

\* get(key) finds an entry that has not expired
CacheHit(k) ==
  /\ ccfg.enabled
  /\ AdapterHas(cstore, BuildKey(k))
  /\ ~IsExpired(AdapterGet(cstore, BuildKey(k)))

UpdateHitRate(s) ==
  IF s.hits + s.misses > 0
    THEN [s EXCEPT !.hitRate = (s.hits * 100) \div (s.hits + s.misses)]
    ELSE [s EXCEPT !.hitRate = 0]

\* options.ttl ?? this.config.defaultTTL
EntryTTL_DefaultOnly(ttl) == ccfg.defaultTTL

EntryTTL(ttl) == IF ttl # Undef THEN ttl ELSE ccfg.defaultTTL

\* the writes whose entries are taken out of the store with the keys in gone
WritesWithout(gone) ==
  [k \in AllCacheKeys |-> IF BuildKey(k) \in gone THEN [cwrites[k] EXCEPT !.live = FALSE]
                                               ELSE cwrites[k]]

\* get(key): what it does to the store and the statistics
CacheGetCall(k) ==
  /\ IF ~ccfg.enabled
       THEN /\ clast' = [op |-> "get", key |-> k, result |-> Null]
            /\ UNCHANGED <<cstore, cstats>>
       ELSE IF ~AdapterHas(cstore, BuildKey(k))
         THEN /\ cstats' = UpdateHitRate([cstats EXCEPT !.misses = @ + 1])
              /\ clast' = [op |-> "get", key |-> k, result |-> Null]
              /\ UNCHANGED cstore
         ELSE LET entry == AdapterGet(cstore, BuildKey(k))
              IN  IF IsExpired(entry)
                    THEN \* await this.delete(key); misses++
                         /\ cstore' = AdapterDelete(cstore, BuildKey(k))
                         /\ cstats' = UpdateHitRate([cstats EXCEPT !.deletes = @ + 1,
                                                       !.size = Len(cstore'),
                                                       !.misses = @ + 1])
                         /\ clast' = [op |-> "get", key |-> k, result |-> Null]
                    ELSE \* entry.hits++; adapter.set(cacheKey, entry); hits++
                         /\ cstore' = AdapterSet(cstore, BuildKey(k),
                                                 [entry EXCEPT !.hits = @ + 1])
                         /\ cstats' = UpdateHitRate([cstats EXCEPT !.hits = @ + 1])
                         /\ clast' = [op |-> "get", key |-> k,
                                      result |-> DeserializeData(entry.data)]
  /\ UNCHANGED <<ccfg, cwrites>>

\* get(key), called directly
CacheGet(k) ==
  /\ cops < MaxCacheOps
  /\ cops' = cops + 1
  /\ CacheGetCall(k)
  /\ UNCHANGED nonCacheVars

\* set(key, data, {ttl}): what it does to the store and the statistics
CacheSetCall(k, d, ttl) ==
  /\ clast' = [op |-> "set", key |-> k, result |-> Null]
  /\ IF ~ccfg.enabled
       THEN UNCHANGED <<cstore, cstats, cwrites>>
       ELSE LET entry == [key |-> BuildKey(k), data |-> SerializeData(d),
                          expiresAt |-> now + EntryTTL(ttl), createdAt |-> now, hits |-> 0]
            IN  /\ cstore' = AdapterSet(cstore, BuildKey(k), entry)
                /\ cstats' = [cstats EXCEPT !.sets = @ + 1, !.size = Len(cstore')]
                /\ cwrites' = [WritesWithout(AdapterEvicts(cstore, BuildKey(k))) EXCEPT
                                 ![k] = [at |-> now, ttl |-> ttl, data |-> d, live |-> TRUE]]
  /\ UNCHANGED ccfg

\* set(key, data, {ttl}), called directly
CacheSet(k, d, ttl) ==
  /\ cops < MaxCacheOps
  /\ cops' = cops + 1
  /\ CacheSetCall(k, d, ttl)
  /\ UNCHANGED nonCacheVars

\* get and set on a store of two entries at most, with three keys
EvictionGet(k) ==
  /\ cops < MaxEvictionOps
  /\ cops' = cops + 1
  /\ CacheGetCall(k)
  /\ UNCHANGED nonCacheVars

EvictionSet(k, d) ==
  /\ cops < MaxEvictionOps
  /\ cops' = cops + 1
  /\ CacheSetCall(k, d, Undef)
  /\ UNCHANGED nonCacheVars

EvictionNext ==
  \/ \E k \in EvictionKeys : EvictionGet(k)
  \/ \E k \in EvictionKeys, d \in CacheData : EvictionSet(k, d)

\* delete(key)
CacheDelete(k) ==
  /\ cops < MaxCacheOps
  /\ cops' = cops + 1
  /\ IF ccfg.enabled /\ AdapterHas(cstore, BuildKey(k))
       THEN /\ cstore' = AdapterDelete(cstore, BuildKey(k))
            /\ cstats' = [cstats EXCEPT !.deletes = @ + 1, !.size = Len(cstore')]
            /\ cwrites' = WritesWithout({BuildKey(k)})
            /\ clast' = [op |-> "delete", key |-> k, result |-> "true"]
       ELSE /\ clast' = [op |-> "delete", key |-> k, result |-> "false"]
            /\ UNCHANGED <<cstore, cstats, cwrites>>
  /\ UNCHANGED ccfg
  /\ UNCHANGED nonCacheVars

\* clear()
CacheClear ==
  /\ cops < MaxCacheOps
  /\ cops' = cops + 1
  /\ clast' = [op |-> "clear", key |-> <<>>, result |-> Null]
  /\ IF ccfg.enabled
       THEN /\ cstore' = <<>>
            /\ cstats' = [cstats EXCEPT !.size = 0]
            /\ cwrites' = WritesWithout(AdapterKeys(cstore))
       ELSE UNCHANGED <<cstore, cstats, cwrites>>
  /\ UNCHANGED ccfg
  /\ UNCHANGED nonCacheVars

\* new RegExp(pattern).test(key), for a pattern that is one of the parts of a
\* key: the prefix, a method or a URL
PatternMatches_UrlOnly(pattern, ck) == ck[Len(ck)] = pattern

PatternMatches(pattern, ck) == \E i \in 1..Len(ck) : ck[i] = pattern

\* invalidatePattern(pattern)
InvalidatePattern(pattern) ==
  /\ cops < MaxCacheOps
  /\ cops' = cops + 1
  /\ IF ccfg.enabled
       THEN LET gone == {ck \in AdapterKeys(cstore) : PatternMatches(pattern, ck)}
            IN  /\ cstore' = SelectSeq(cstore, LAMBDA e : e.key \notin gone)
                /\ cstats' = IF gone # {} THEN [cstats EXCEPT !.size = Len(cstore')]
                                          ELSE cstats
                /\ cwrites' = WritesWithout(gone)
                /\ clast' = [op |-> "invalidatePattern", key |-> <<pattern>>,
                             result |-> Cardinality(gone)]
       ELSE /\ clast' = [op |-> "invalidatePattern", key |-> <<pattern>>, result |-> 0]
            /\ UNCHANGED <<cstore, cstats, cwrites>>
  /\ UNCHANGED ccfg
  /\ UNCHANGED nonCacheVars

\* the patterns invalidateCache is called with: none, a URL that is stored, a
\* URL that is not, the method and the key prefix
InvalidatePatterns == {"", "/a", "/b", "/zzz", "GET", KeyPrefix}

\* ApiClient.invalidateCache(pattern): 0 when the cache is off,
\* invalidatePattern for a pattern, clear and 0 without one
InvalidateCache(pattern) ==
  IF ccfg.enabled /\ pattern # ""
    THEN InvalidatePattern(pattern)
    ELSE /\ cops < MaxCacheOps
         /\ cops' = cops + 1
         /\ clast' = [op |-> "invalidateCache", key |-> <<pattern>>, result |-> 0]
         /\ IF ccfg.enabled
              THEN /\ cstore' = <<>>
                   /\ cstats' = [cstats EXCEPT !.size = 0]
                   /\ cwrites' = WritesWithout(AdapterKeys(cstore))
              ELSE UNCHANGED <<cstore, cstats, cwrites>>
         /\ UNCHANGED ccfg
         /\ UNCHANGED nonCacheVars

InvalidateNext ==
  \/ \E k \in CacheKeys, d \in CacheData : CacheSet(k, d, Undef)
  \/ \E pattern \in InvalidatePatterns : InvalidateCache(pattern)
  \/ Tick

\* cleanup()
CacheCleanup ==
  /\ cops < MaxCacheOps
  /\ cops' = cops + 1
  /\ IF ccfg.enabled
       THEN LET gone == {cstore[i].key : i \in {j \in 1..Len(cstore) : IsExpired(cstore[j])}}
            IN  /\ cstore' = SelectSeq(cstore, LAMBDA e : e.key \notin gone)
                /\ cstats' = IF gone # {} THEN [cstats EXCEPT !.size = Len(cstore')]
                                          ELSE cstats
                /\ clast' = [op |-> "cleanup", key |-> <<>>, result |-> Cardinality(gone)]
       ELSE /\ clast' = [op |-> "cleanup", key |-> <<>>, result |-> 0]
            /\ UNCHANGED <<cstore, cstats>>
  /\ UNCHANGED <<ccfg, cwrites>>
  /\ UNCHANGED nonCacheVars

\* the clock and the interval timer of the deduplication manager run meanwhile
CacheNext ==
  \/ \E k \in CacheKeys : CacheGet(k)
  \/ \E k \in CacheKeys, d \in CacheData, ttl \in CacheTTLOptions : CacheSet(k, d, ttl)
  \/ \E k \in CacheKeys : CacheDelete(k)
  \/ CacheClear
  \/ \E u \in CacheUrls : InvalidatePattern(u)
  \/ CacheCleanup
  \/ CleanupExpiredRequests
  \/ Tick

(***************************************************************************)
(* ApiClient.request: deduplication, cache probe, retry loop, interceptors *)
(***************************************************************************)
\* mergeConfig / the transport adapter keep the method in lower case
AxiosMethod(m) == CASE m = "GET" -> "get" [] m = "POST" -> "post" [] OTHER -> m

\* tryGetFromCache: cacheManager.buildCacheKey(url, method, params, data)
ProbeKey(q) == BuildCacheKey(q.url, q.method, "", "")
\* ResponseInterceptors.buildCacheKey(response.config)
WriteKey(q) == BuildCacheKey(q.url, ToUpperCase(AxiosMethod(q.method)), "", "")

\* shouldCache(response)
ShouldCache_AnyStatus(q, status) == ToUpperCase(AxiosMethod(q.method)) = "GET"

ShouldCache(q, status) ==
  ToUpperCase(AxiosMethod(q.method)) = "GET" /\ status >= 200 /\ status < 300

NoRequest == [method |-> "", url |-> "", headers |-> Undefined, data |-> Undefined]
IdlePipe == [stage |-> "idle", req |-> NoRequest, attempt |-> 0, delay |-> 0, tcalls |-> 0,
             first |-> 0, replays |-> 0, replayDenied |-> FALSE, waitsOn |-> 0,
             writes |-> 0, bearer |-> 0, warnings |-> {}, outcome |-> NoOutcome,
             skipAuth |-> FALSE]

\* new ValidationError(message, field, value): a BaseApiError, not an ApiError
ValidationError(field) ==
  [type |-> "ValidationError", code |-> "VALIDATION_ERROR", status |-> 0, data |-> field]

\* new ApiError({ message }): the code defaults to API_ERROR
PlainApiError == [type |-> "ApiError", code |-> "API_ERROR", status |-> 0, data |-> ""]

\* the catch of request(): an ApiError and a RetryExhaustedError are rethrown,
\* any other error is replaced by new ApiError({ message })
RequestCatch(e) ==
  IF "kind" \in DOMAIN e
    THEN IF e.kind = "RetryExhaustedError" THEN e ELSE PlainApiError
    ELSE IF e.type = "ApiError" THEN e ELSE PlainApiError

\* no request() call made yet; rejected counts the calls the checks rejected,
\* field is the field of the last ValidationError, thrown what the caller of
\* the last rejected call received
NoLastRequest == [req |-> NoRequest, rejected |-> 0, field |-> "", thrown |-> NoError,
                  skipCache |-> FALSE]

\* statuses the transport answers a request with
TransportStatuses == {200, 401, 500}

\* the response envelope of the n-th transport call of request p
ResponseWith(p, n, status) == [status |-> status, data |-> <<p, n>>, fromCache |-> FALSE]
Response(p, n) == ResponseWith(p, n, 200)

\* statuses a client configured with validateStatus: status < 500 resolves with
LenientStatuses == {200, 204, 404}

\* the AxiosError of a response with this status
AxiosErrorOf(status) ==
  [type |-> "AxiosError", code |-> "ERR_BAD_RESPONSE", status |-> status, data |-> "body"]

\* new AuthError('Failed to refresh authentication token', REFRESH_TOKEN_EXPIRED)
RefreshAuthError ==
  [type |-> "AuthError", code |-> "REFRESH_TOKEN_EXPIRED", status |-> 0, data |-> ""]

\* getErrorCodeFromStatus
GetErrorCodeFromStatus(status) ==
  CASE status = 400 -> "BAD_REQUEST"
    [] status = 401 -> "UNAUTHORIZED"
    [] status = 403 -> "FORBIDDEN"
    [] status = 404 -> "NOT_FOUND"
    [] status = 405 -> "METHOD_NOT_ALLOWED"
    [] status = 409 -> "CONFLICT"
    [] status = 429 -> "RATE_LIMITED"
    [] status = 500 -> "SERVER_ERROR"
    [] status \in {502, 503, 504} -> "SERVICE_UNAVAILABLE"
    [] OTHER -> IF status >= 400 /\ status < 500 THEN "API_ERROR"
                ELSE IF status >= 500 THEN "SERVER_ERROR" ELSE "UNKNOWN_ERROR"

\* ApiError.fromAxiosError(error): status 0 stands for an error without response
FromAxiosError(e) ==
  [type |-> "ApiError",
   code |-> IF e.status # 0 THEN GetErrorCodeFromStatus(e.status)
            ELSE IF e.code = "ECONNABORTED" THEN "TIMEOUT_ERROR" ELSE "NETWORK_ERROR",
   status |-> e.status, data |-> e.data]

ClientInit == pipe = [p \in Calls |-> IdlePipe] /\ lastRequest = NoLastRequest

\* no promise reaction is waiting to run: timers and transport answers are
\* tasks, and a task starts only when the microtask queue is empty
Quiescent ==
  /\ \A p \in Calls :
       /\ ~(pipe[p].stage = "finished" /\ Running(p))
       /\ ~(Settled(p) /\ ops[p].managed /\ ~ops[p].finallyRan)
       /\ ~(pipe[p].stage = "refreshWait" /\ RefreshSettled(pipe[p].waitsOn))
  /\ \A r \in RefreshCalls : ~(RefreshSettled(r) /\ ~refr[r].finallyRan)

\* createAuthInterceptor with a token that needs no refresh: the id of the
\* stored access token the request goes out with, 0 for none
BearerNow == IF acfg.interceptors /\ acfg.enabled THEN accessToken.id ELSE 0

\* the same for a request with config.skipAuth: the interceptor returns the
\* config as it is
BearerFor(skipAuth) == IF skipAuth THEN 0 ELSE BearerNow

\* a config without per-call overrides
NoRequestConfig == [skipCache |-> FALSE, skipAuth |-> FALSE]

\* the closure of request p ends: its locals are gone
Finished(pp, o) ==
  [pp EXCEPT !.stage = "finished", !.attempt = 0, !.delay = 0, !.waitsOn = 0, !.bearer = 0,
             !.outcome = o]

\* the catch of the retry loop, or of operation() when the loop is not used:
\* the state of the closure of request p after operation() threw e
AfterFailure(p, e) ==
  IF ~rcfg.enabled
    THEN Finished(pipe[p], [kind |-> "error", v |-> e])
    ELSE IF pipe[p].attempt = rcfg.maxAttempts \/ ~DefaultRetryCondition(e)
      THEN Finished(pipe[p], [kind |-> "error",
                                     v |-> RetryExhaustedError(pipe[p].attempt, e)])
      ELSE [pipe[p] EXCEPT !.stage = "backoff", !.attempt = @ + 1,
              !.delay = CalculateDelay(pipe[p].attempt, NoOptions, 0)]

\* the statistics of the retry manager after operation() of request p threw e
StatsAfterFailure(p, e) ==
  IF ~rcfg.enabled THEN rstats
  ELSE IF pipe[p].attempt = rcfg.maxAttempts \/ ~DefaultRetryCondition(e)
    THEN IF pipe[p].attempt > 1 THEN [rstats EXCEPT !.failedRetries = @ + 1] ELSE rstats
    ELSE [rstats EXCEPT !.totalAttempts = @ + 1]

\* the statistics of the retry manager after operation() of request p resolved
StatsAfterSuccess(p) ==
  IF rcfg.enabled /\ pipe[p].attempt > 1
    THEN [rstats EXCEPT !.successfulRetries = @ + 1] ELSE rstats

\* tryGetFromCache: the ApiResponse built from the cached data
CachedResponse_Unmarked(cachedData) ==
  [status |-> cachedData.status, data |-> cachedData.data, fromCache |-> FALSE]

CachedResponse(cachedData) ==
  [status |-> cachedData.status, data |-> cachedData.data, fromCache |-> TRUE]

\* the catch of tryGetFromCache: logger.warn, then return null, so that the
\* closure pp goes on as after a miss
LookupFailed_Rethrow(pp) ==
  Finished([pp EXCEPT !.warnings = @ \cup {"Cache lookup failed"}],
           [kind |-> "error",
            v |-> [type |-> "CacheError", code |-> "CACHE_ERROR", status |-> 0,
                   data |-> ""]])

LookupFailed(pp) == [pp EXCEPT !.warnings = @ \cup {"Cache lookup failed"}]

\* the catch of createCacheInterceptor: logger.warn, then return response, so
\* that the closure pp goes on as after a write
CacheWriteFailed(pp) == [pp EXCEPT !.warnings = @ \cup {"Failed to cache response"}]

\* CacheManager.get or set whose adapter call threw: the store and the
\* statistics are as before, and the call throws a CacheError
CacheCallThrows(op, k) ==
  /\ clast' = [op |-> op, key |-> k, result |-> Null]
  /\ UNCHANGED <<ccfg, cstore, cstats, cwrites>>

\* request(method, url, config) with arguments that pass the checks:
\* executeRequest and, for a new operation, the closure up to its first wait:
\* the cache probe and the first transport call. adapterThrows: the backing
\* store of the cache throws when it is read; config: skipCache and skipAuth
ClientRequestOpts(c, q, adapterThrows, config) ==
  /\ ValidationField(q) = ""
  /\ lastRequest' = [lastRequest EXCEPT !.req = q, !.skipCache = config.skipCache]
  /\ ExecuteRequestCall(c, DedupKeyOf(q))
  /\ IF dedupEnabled /\ ExistingRequest(DedupKeyOf(q)) # NoEntry
       THEN UNCHANGED <<pipe, cacheVars, rstats>>
       ELSE IF ~config.skipCache /\ ccfg.enabled /\ q.method = "GET"
         THEN \* tryGetFromCache
              /\ IF adapterThrows THEN CacheCallThrows("get", ProbeKey(q))
                                  ELSE CacheGetCall(ProbeKey(q))
              /\ UNCHANGED cops
              /\ IF ~adapterThrows /\ CacheHit(ProbeKey(q))
                   THEN /\ pipe' = [pipe EXCEPT ![c] = [IdlePipe EXCEPT
                              !.stage = "finished", !.req = q,
                              !.outcome = [kind |-> "value",
                                           v |-> CachedResponse(clast'.result)]]]
                        /\ UNCHANGED rstats
                   ELSE /\ LET sent == [IdlePipe EXCEPT !.stage = "sent", !.req = q,
                                            !.attempt = 1, !.tcalls = 1,
                                            !.bearer = BearerFor(config.skipAuth),
                                            !.skipAuth = config.skipAuth]
                           IN  pipe' = [pipe EXCEPT ![c] =
                                 IF adapterThrows THEN LookupFailed(sent) ELSE sent]
                        /\ rstats' = IF rcfg.enabled
                                       THEN [rstats EXCEPT !.totalAttempts = @ + 1]
                                       ELSE rstats
         ELSE /\ pipe' = [pipe EXCEPT ![c] = [IdlePipe EXCEPT
                    !.stage = "sent", !.req = q, !.attempt = 1, !.tcalls = 1,
                    !.bearer = BearerFor(config.skipAuth),
                                            !.skipAuth = config.skipAuth]]
              /\ rstats' = IF rcfg.enabled THEN [rstats EXCEPT !.totalAttempts = @ + 1]
                                           ELSE rstats
              /\ UNCHANGED cacheVars
  /\ UNCHANGED <<rcfg, rpc, ropts, rloop, rlog, rhook, rresult, rruns>>
  /\ UNCHANGED authVars

\* request(method, url, config) without skipCache and skipAuth
ClientRequestWith(c, q, adapterThrows) ==
  /\ c <= MaxClientCalls
  /\ ClientRequestOpts(c, q, adapterThrows, NoRequestConfig)

\* request(method, url, config) with the MemoryCacheAdapter, which never throws
ClientRequest(c, q) == ClientRequestWith(c, q, FALSE)

\* request(method, url, config) with arguments that do not pass the checks:
\* the ValidationError is thrown before executeRequest is called
RejectRequest(q) ==
  /\ lastRequest.rejected < MaxRejections
  /\ ValidationField(q) # ""
  /\ lastRequest' = [req |-> q, rejected |-> lastRequest.rejected + 1,
                     field |-> ValidationField(q),
                     thrown |-> RequestCatch(ValidationError(ValidationField(q))),
                     skipCache |-> FALSE]
  /\ UNCHANGED <<dedupVars, retryVars, authVars, cacheVars, pipe>>

\* the transport answers the request, or the replay, of request p with a
\* response whose status validateStatus accepts: cache interceptor, then the
\* closure resolves. adapterThrows: the backing store of the cache throws when
\* it is written
TransportResolves(p, status, adapterThrows) ==
  /\ Quiescent
  /\ pipe[p].stage \in {"sent", "replaySent"}
  /\ LET resp == ResponseWith(p, pipe[p].tcalls, status)
         cached == acfg.interceptors /\ ccfg.enabled /\ ShouldCache(pipe[p].req, resp.status)
         done == [Finished(pipe[p], [kind |-> "value", v |-> resp]) EXCEPT
                    !.first = IF @ = 0 THEN resp.status ELSE @]
     IN  /\ IF cached
              THEN /\ IF adapterThrows
                        THEN CacheCallThrows("set", WriteKey(pipe[p].req))
                        ELSE CacheSetCall(WriteKey(pipe[p].req),
                                          [status |-> resp.status, data |-> resp.data], Undef)
                   /\ UNCHANGED cops
              ELSE UNCHANGED cacheVars
         /\ pipe' = [pipe EXCEPT ![p] =
                IF ~cached THEN done
                ELSE IF adapterThrows THEN CacheWriteFailed(done)
                ELSE [done EXCEPT !.writes = @ + 1]]
         /\ rstats' = StatsAfterSuccess(p)
  /\ UNCHANGED <<rcfg, rpc, ropts, rloop, rlog, rhook, rresult, rruns>>
  /\ UNCHANGED <<dedupVars, authVars, lastRequest>>

\* the same with the default validateStatus and a 200 response
TransportSucceedsWith(p, adapterThrows) == TransportResolves(p, 200, adapterThrows)

\* the same with the MemoryCacheAdapter, which never throws
TransportSucceeds(p) == TransportSucceedsWith(p, FALSE)

\* the transport answers the request of request p with an error status
TransportFails(p, status) ==
  /\ Quiescent
  /\ pipe[p].stage = "sent"
  /\ status # 200
  /\ IF acfg.interceptors /\ status = 401 /\ acfg.enabled
       THEN \* handleUnauthorized: _retry = true, authManager.refreshToken()
            /\ nextRefreshCall < MaxRefreshCalls
            /\ RefreshTokenCall(nextRefreshCall + 1)
            /\ UNCHANGED logout
            /\ pipe' = [pipe EXCEPT ![p] = [@ EXCEPT
                   !.stage = "refreshWait",
                   !.first = IF @ = 0 THEN status ELSE @,
                   !.waitsOn = rcalls'[nextRefreshCall + 1].promise]]
            /\ UNCHANGED rstats
       ELSE \* errorTransform (or the catch of operation): ApiError
            /\ pipe' = [pipe EXCEPT ![p] =
                   [AfterFailure(p, FromAxiosError(AxiosErrorOf(status))) EXCEPT
                      !.first = IF @ = 0 THEN status ELSE @]]
            /\ rstats' = StatsAfterFailure(p, FromAxiosError(AxiosErrorOf(status)))
            /\ UNCHANGED authVars
  /\ UNCHANGED <<rcfg, rpc, ropts, rloop, rlog, rhook, rresult, rruns>>
  /\ UNCHANGED <<dedupVars, cacheVars, lastRequest>>

\* the transport answers the replay of request p with an error status: the
\* catch of performTokenRefreshAndRetry throws an AuthError, the catch of
\* handleUnauthorized clears the tokens, errorTransform converts the AuthError
ReplayFails(p, status) ==
  /\ Quiescent
  /\ pipe[p].stage = "replaySent"
  /\ status # 200
  /\ accessToken' = NoToken
  /\ refreshTok' = 0
  /\ pipe' = [pipe EXCEPT ![p] =
         [AfterFailure(p, FromAxiosError(RefreshAuthError)) EXCEPT
            !.replayDenied = (status = 401)]]
  /\ rstats' = StatsAfterFailure(p, FromAxiosError(RefreshAuthError))
  /\ UNCHANGED <<acfg, logout, refreshPromise, refr, rcalls, nextRefreshCall>>
  /\ UNCHANGED <<rcfg, rpc, ropts, rloop, rlog, rhook, rresult, rruns>>
  /\ UNCHANGED <<dedupVars, cacheVars, lastRequest>>

\* the refresh request p waits for has settled: replay, or give up
RefreshSettledFor(p) ==
  /\ pipe[p].stage = "refreshWait"
  /\ RefreshSettled(pipe[p].waitsOn)
  /\ IF refr[pipe[p].waitsOn].state = "fulfilled"
       THEN \* headers[authHeader] = newToken; this.axiosInstance(originalRequest),
            \* whose auth request interceptor puts the stored token, if any
            /\ pipe' = [pipe EXCEPT ![p] = [@ EXCEPT !.stage = "replaySent",
                   !.tcalls = @ + 1, !.replays = @ + 1,
                   !.bearer = IF accessToken # NoToken THEN accessToken.id
                              ELSE refr[pipe[p].waitsOn].token.id]]
            /\ UNCHANGED <<rstats, authVars>>
       ELSE \* AuthError; handleUnauthorized clears the tokens
            /\ accessToken' = NoToken
            /\ refreshTok' = 0
            /\ pipe' = [pipe EXCEPT ![p] = AfterFailure(p, FromAxiosError(RefreshAuthError))]
            /\ rstats' = StatsAfterFailure(p, FromAxiosError(RefreshAuthError))
            /\ UNCHANGED <<acfg, logout, refreshPromise, refr, rcalls, nextRefreshCall>>
  /\ UNCHANGED <<rcfg, rpc, ropts, rloop, rlog, rhook, rresult, rruns>>
  /\ UNCHANGED <<dedupVars, cacheVars, lastRequest>>

\* the backoff delay of request p has elapsed: operation() is invoked again
\* with the requestConfig of the first attempt
ClientRetry(p) ==
  /\ Quiescent
  /\ pipe[p].stage = "backoff"
  /\ rstats' = UpdateStats(rstats, pipe[p].delay)
  /\ pipe' = [pipe EXCEPT ![p] = [@ EXCEPT !.stage = "sent", !.tcalls = @ + 1,
                                       !.bearer = BearerFor(pipe[p].skipAuth)]]
  /\ UNCHANGED <<rcfg, rpc, ropts, rloop, rlog, rhook, rresult, rruns>>
  /\ UNCHANGED <<dedupVars, authVars, cacheVars, lastRequest>>

\* the closure of request p has finished: its promise settles
ClientSettle(p) ==
  /\ pipe[p].stage = "finished"
  /\ OpSettle(p, pipe[p].outcome)

\* the refresh endpoint answers
ClientRefreshAnswer(r, a) == Quiescent /\ RefreshAnswer(r, a)

\* the interval timer of the deduplication manager fires
ClientSweep == Quiescent /\ CleanupExpiredRequests

\* time passes
ClientTick == Quiescent /\ Tick

ClientNext ==
  \/ \E c \in Calls, q \in ClientRequests : ClientRequest(c, q)
  \/ \E p \in Calls : TransportSucceeds(p)
  \/ \E p \in Calls, st \in TransportStatuses : TransportFails(p, st)
  \/ \E p \in Calls, st \in TransportStatuses : ReplayFails(p, st)
  \/ \E p \in Calls : RefreshSettledFor(p)
  \/ \E p \in Calls : ClientRetry(p)
  \/ \E p \in Calls : ClientSettle(p)
  \/ \E p \in Calls : FinallyCallback(p)
  \/ \E r \in RefreshCalls, a \in RefreshAnswers : ClientRefreshAnswer(r, a)
  \/ \E r \in RefreshCalls : RefreshFinally(r)
  \/ ClientSweep
  \/ ClientTick

\* the configurations the client is checked with
ClientConfigInit ==
  /\ DedupInit /\ dedupEnabled
  /\ ccfg \in [enabled : BOOLEAN, defaultTTL : {2 * TickMs}, maxSize : {2}]
  /\ cstore = <<>> /\ cstats = InitCacheStats /\ clast = NoCacheCall
  /\ cwrites = [k \in AllCacheKeys |-> NoWrite] /\ cops = 0
  /\ rcfg \in [enabled : BOOLEAN, maxAttempts : {2}, backoffFactor : {2}, baseDelay : {1000},
               maxDelay : {30000}, jitter : {FALSE}, retryStatusCodes : {RetryStatusCodes}]
  /\ rstats = InitRetryStats /\ rpc = "idle" /\ ropts = NoOptions /\ rloop = IdleLoop
  /\ rlog = <<>> /\ rhook = <<>> /\ rresult = NoResult /\ rruns = 0
  /\ acfg \in [enabled : BOOLEAN, autoRefresh : {TRUE}, interceptors : BOOLEAN]
  /\ accessToken = IF acfg.enabled THEN InitialToken(FALSE) ELSE NoToken
  /\ refreshTok \in (IF acfg.enabled THEN {0, 1} ELSE {0})
  /\ refreshPromise = 0
  /\ logout = NoLogout
  /\ refr = [r \in RefreshCalls |-> IdleRefresh]
  /\ rcalls = [c \in RefreshCalls |-> IdleRefreshCall]
  /\ nextRefreshCall = 0

(***************************************************************************)
(* The auth request interceptor: the credential a request is sent with     *)
(***************************************************************************)
\* getAccessToken: the stored token is refreshed before it is handed out
TokenNeedsRefresh ==
  accessToken # NoToken /\ acfg.autoRefresh /\ accessToken.expSoon

\* createAuthInterceptor.onFulfilled for request p, up to its first wait;
\* bearer is the id of the access token in the Authorization header
AuthorizeRequest(p) ==
  /\ pipe[p].stage = "idle"
  /\ IF acfg.interceptors /\ acfg.enabled /\ TokenNeedsRefresh
       THEN \* return await this.refreshToken()
            /\ nextRefreshCall < MaxRefreshCalls
            /\ RefreshTokenCall(nextRefreshCall + 1)
            /\ UNCHANGED logout
            /\ pipe' = [pipe EXCEPT ![p] = [IdlePipe EXCEPT
                   !.stage = "tokenWait", !.waitsOn = rcalls'[nextRefreshCall + 1].promise]]
       ELSE /\ pipe' = [pipe EXCEPT ![p] = [IdlePipe EXCEPT
                   !.stage = "sent", !.tcalls = 1, !.bearer = BearerNow]]
            /\ UNCHANGED authVars
  /\ UNCHANGED <<dedupVars, retryVars, cacheVars, lastRequest>>

\* the refresh request p waits for has settled: the request goes out with the
\* new token, or, getAccessToken having cleared the tokens and thrown, the
\* interceptor lets it go out without a token
TokenSettledFor(p) ==
  /\ pipe[p].stage = "tokenWait"
  /\ RefreshSettled(pipe[p].waitsOn)
  /\ IF refr[pipe[p].waitsOn].state = "fulfilled"
       THEN /\ pipe' = [pipe EXCEPT ![p] = [@ EXCEPT !.stage = "sent", !.tcalls = 1,
                                              !.bearer = refr[pipe[p].waitsOn].token.id]]
            /\ UNCHANGED authVars
       ELSE /\ accessToken' = NoToken
            /\ refreshTok' = 0
            /\ pipe' = [pipe EXCEPT ![p] = [@ EXCEPT !.stage = "sent", !.tcalls = 1]]
            /\ UNCHANGED <<acfg, logout, refreshPromise, refr, rcalls, nextRefreshCall>>
  /\ UNCHANGED <<dedupVars, retryVars, cacheVars, lastRequest>>

AuthRequestNext ==
  \/ \E p \in Calls : AuthorizeRequest(p)
  \/ \E p \in Calls : TokenSettledFor(p)
  \/ \E c \in RefreshCalls : RefreshToken(c)
  \/ \E r \in RefreshCalls, a \in RefreshAnswers : RefreshAnswer(r, a)
  \/ \E r \in RefreshCalls : RefreshFinally(r)
  \/ TokenAges

(***************************************************************************)
(* Specifications                                                          *)
(***************************************************************************)
DedupNext ==
  \/ \E c \in Calls, k \in Keys : ExecuteRequest(c, k)
  \/ \E p \in Calls : \E o \in ExecutorOutcomes(p) : OpSettle(p, o)
  \/ \E p \in Calls : FinallyCallback(p)
  \/ CleanupExpiredRequests
  \/ Clear
  \/ Tick

InitDedup == DedupInit /\ RetryQuiet /\ AuthQuiet /\ CacheQuiet /\ ClientInit

SpecDedup == InitDedup /\ [][DedupNext]_vars

\* the DeduplicationManager quiet
DedupQuiet ==
  /\ dedupEnabled = TRUE
  /\ now = 0
  /\ pendingRequests = [k \in AllKeys |-> NoEntry]
  /\ ops = [p \in Calls |-> IdleOp]
  /\ dstats = InitStats
  /\ cleanupInterval = TRUE
  /\ nextSweep = SweepInterval
  /\ calls = [c \in Calls |-> IdleCall]
  /\ nextCall = 0

\* executeRequest(q.method, q.url, requestExecutor, q.data, q.params)
ExecuteRequestFor(c, q) ==
  /\ c <= MaxFingerprintCalls
  /\ ExecuteRequest(c, Fingerprint(q))

FingerprintNext ==
  \/ \E c \in Calls, q \in FingerprintRequests : ExecuteRequestFor(c, q)
  \/ \E p \in Calls : \E o \in ExecutorOutcomes(p) : OpSettle(p, o)
  \/ \E p \in Calls : FinallyCallback(p)

SpecFingerprint == InitDedup /\ [][FingerprintNext]_vars

InitRetry == RetryInit /\ DedupQuiet /\ AuthQuiet /\ CacheQuiet /\ ClientInit

SpecRetry == InitRetry /\ [][RetryNext]_vars

\* the errors the retry predicate is checked with: connection errors as the
\* transport raises them, and the ApiErrors of 4xx and 5xx responses
ConnectionErrorCodes == {"ENOTFOUND", "ECONNREFUSED", "ECONNRESET", "ETIMEDOUT"}
PredicateStatuses == {400, 401, 403, 404, 408, 409, 422, 429, 500, 501, 502, 503, 504, 505}
PredicateErrors ==
  {[type |-> "AxiosError", code |-> c, status |-> 0, data |-> ""] : c \in ConnectionErrorCodes}
    \cup {FromAxiosError(AxiosErrorOf(st)) : st \in PredicateStatuses}

\* a client-wide policy of two attempts, each attempt failing with any of them
RetryConditionNext ==
  \/ RetryExecute(NoOptions)
  \/ RetryOperationSucceeds
  \/ \E e \in PredicateErrors : RetryOperationFails(e, 0)
  \/ RetryDelayElapsed

InitRetryCondition ==
  /\ InitRetry
  /\ rcfg.enabled /\ rcfg.maxAttempts = 2 /\ ~rcfg.jitter /\ rcfg.maxDelay = 30000

SpecRetryCondition == InitRetryCondition /\ [][RetryConditionNext]_vars

InitAuth == AuthInit /\ DedupQuiet /\ RetryQuiet /\ CacheQuiet /\ ClientInit

SpecAuth == InitAuth /\ [][AuthNext]_vars

SpecLogout == InitAuth /\ [][LogoutNext]_vars

\* requests and refreshes; every step that can be taken is taken eventually: the
\* refresh endpoint answers or the transport times out, reactions run
SpecAuthRequest == InitAuth /\ [][AuthRequestNext]_vars /\ WF_vars(AuthRequestNext)

InitCache == CacheInit /\ DedupQuiet /\ RetryQuiet /\ AuthQuiet /\ ClientInit

SpecCache == InitCache /\ [][CacheNext]_vars

InitEviction == InitCache /\ ccfg.enabled

SpecInvalidate == InitCache /\ [][InvalidateNext]_vars

SpecEviction == InitEviction /\ [][EvictionNext]_vars

InitClient == ClientConfigInit /\ ClientInit

SpecClient == InitClient /\ [][ClientNext]_vars

\* two distinct requests at a time, with credentials stored and interceptors on
PairRequests ==
  {[method |-> "GET", url |-> u, headers |-> Undefined, data |-> Undefined] : u \in {"/a", "/b"}}

ClientPairNext ==
  \/ \E c \in Calls, q \in PairRequests : ClientRequest(c, q)
  \/ \E p \in Calls : TransportSucceeds(p)
  \/ \E p \in Calls, st \in TransportStatuses : TransportFails(p, st)
  \/ \E p \in Calls, st \in TransportStatuses : ReplayFails(p, st)
  \/ \E p \in Calls : RefreshSettledFor(p)
  \/ \E p \in Calls : ClientRetry(p)
  \/ \E p \in Calls : ClientSettle(p)
  \/ \E p \in Calls : FinallyCallback(p)
  \/ \E r \in RefreshCalls, a \in RefreshAnswers : ClientRefreshAnswer(r, a)
  \/ \E r \in RefreshCalls : RefreshFinally(r)

InitClientPair ==
  /\ InitClient
  /\ acfg.enabled /\ acfg.interceptors /\ refreshTok = 1 /\ ~ccfg.enabled

SpecClientPair == InitClientPair /\ [][ClientPairNext]_vars

\* well-formed and malformed calls of request(), with credentials stored,
\* interceptors, cache and retries on, and a backing store of the cache that
\* may throw on any read and any write
RequestInputs == ClientRequests \cup MalformedRequests

RequestNext ==
  \/ \E c \in Calls, q \in RequestInputs, t \in BOOLEAN : ClientRequestWith(c, q, t)
  \/ \E q \in RequestInputs : RejectRequest(q)
  \/ \E p \in Calls, t \in BOOLEAN : TransportSucceedsWith(p, t)
  \/ \E p \in Calls, st \in TransportStatuses : TransportFails(p, st)
  \/ \E p \in Calls, st \in TransportStatuses : ReplayFails(p, st)
  \/ \E p \in Calls : RefreshSettledFor(p)
  \/ \E p \in Calls : ClientRetry(p)
  \/ \E p \in Calls : ClientSettle(p)
  \/ \E p \in Calls : FinallyCallback(p)
  \/ \E r \in RefreshCalls, a \in RefreshAnswers : ClientRefreshAnswer(r, a)
  \/ \E r \in RefreshCalls : RefreshFinally(r)

InitRequest ==
  /\ InitClient
  /\ acfg.enabled /\ acfg.interceptors /\ refreshTok = 1 /\ ccfg.enabled /\ rcfg.enabled

SpecRequest == InitRequest /\ [][RequestNext]_vars

\* requests with and without skipAuth against a client with stored
\* credentials and interceptors
SkipAuthNext ==
  \/ \E c \in Calls, q \in PairRequests, skipAuth \in BOOLEAN :
       /\ c <= MaxClientCalls
       /\ ClientRequestOpts(c, q, FALSE, [skipCache |-> FALSE, skipAuth |-> skipAuth])
  \/ \E p \in Calls : TransportSucceeds(p)
  \/ \E p \in Calls, st \in TransportStatuses : TransportFails(p, st)
  \/ \E p \in Calls, st \in TransportStatuses : ReplayFails(p, st)
  \/ \E p \in Calls : RefreshSettledFor(p)
  \/ \E p \in Calls : ClientRetry(p)
  \/ \E p \in Calls : ClientSettle(p)
  \/ \E p \in Calls : FinallyCallback(p)
  \/ \E r \in RefreshCalls, a \in RefreshAnswers : ClientRefreshAnswer(r, a)
  \/ \E r \in RefreshCalls : RefreshFinally(r)

InitSkipAuth == InitClient /\ acfg.enabled /\ acfg.interceptors

SpecSkipAuth == InitSkipAuth /\ [][SkipAuthNext]_vars

\* GET requests with and without skipCache against a client without
\* credentials, with the cache on
SkipCacheNext ==
  \/ \E c \in Calls, q \in PairRequests, skipCache \in BOOLEAN :
       ClientRequestOpts(c, q, FALSE, [skipCache |-> skipCache, skipAuth |-> FALSE])
  \/ \E p \in Calls : TransportSucceeds(p)
  \/ \E p \in Calls : ClientSettle(p)
  \/ \E p \in Calls : FinallyCallback(p)

InitSkipCache == InitClient /\ ~acfg.enabled /\ acfg.interceptors /\ ccfg.enabled

SpecSkipCache == InitSkipCache /\ [][SkipCacheNext]_vars

\* GET and POST requests against a client without credentials, with the cache
\* on and validateStatus: status < 500
CachePolicyNext ==
  \/ \E c \in Calls, q \in PolicyRequests : ClientRequest(c, q)
  \/ \E p \in Calls, st \in LenientStatuses : TransportResolves(p, st, FALSE)
  \/ \E p \in Calls : TransportFails(p, 500)
  \/ \E p \in Calls : ClientRetry(p)
  \/ \E p \in Calls : ClientSettle(p)
  \/ \E p \in Calls : FinallyCallback(p)

InitCachePolicy == InitClient /\ ~acfg.enabled /\ acfg.interceptors /\ ccfg.enabled

SpecCachePolicy == InitCachePolicy /\ [][CachePolicyNext]_vars

(***************************************************************************)
(* Claims about validation and the cache path of ApiClient.request         *)
(***************************************************************************)

\* C21: a request whose method is not GET never reads the cache and never
\* causes a cache write, and the response of a GET is written to the cache
\* only when its status is 2xx.
C21_OnlyGetUsesCache ==
  [][/\ (cstats'.hits # cstats.hits \/ cstats'.misses # cstats.misses)
          => (nextCall' = nextCall + 1 /\ lastRequest'.req.method = "GET")
     /\ (cstats'.sets # cstats.sets \/ cstore' # cstore)
          => \/ (nextCall' = nextCall + 1 /\ lastRequest'.req.method = "GET"
                   /\ cstats'.sets = cstats.sets)
             \/ \E p \in Calls :
                  /\ pipe[p].stage = "sent" /\ pipe'[p].stage = "finished"
                  /\ pipe[p].req.method = "GET"
                  /\ pipe'[p].outcome.kind = "value"
                  /\ pipe'[p].outcome.v.status \in 200..299]_vars

\* a POST answered 200 and a GET answered 404 have both resolved and nothing
\* was written to the cache, which the GET had probed
C21_Witness ==
  /\ ccfg.enabled
  /\ cstats.sets = 0 /\ cstore = <<>>
  /\ cstats.misses = 1
  /\ \E p, r \in Calls :
       /\ pipe[p].req.method = "POST" /\ pipe[p].stage = "finished"
       /\ pipe[p].outcome.kind = "value" /\ pipe[p].outcome.v.status = 200
       /\ pipe[r].req.method = "GET" /\ pipe[r].stage = "finished"
       /\ pipe[r].outcome.kind = "value" /\ pipe[r].outcome.v.status = 404

\* the error names an authentication failure
IsAuthenticationError(e) ==
  e.type = "AuthError" \/ e.code \in {"AUTH_ERROR", "UNAUTHORIZED", "TOKEN_EXPIRED",
                                       "REFRESH_TOKEN_EXPIRED"}

\* the cause an error received from request() carries
CauseOf(e) == IF "kind" \in DOMAIN e THEN e.lastError ELSE e

\* C28: the error a caller of request() receives identifies the kind of its
\* last meaningful cause: a validation failure surfaces as a validation error,
\* a failed refresh or a second 401 as an authentication error, and an
\* exhausted retry sequence as RetryExhausted wrapping the last transport
\* error.
C28_ErrorNamesCause ==
  [][/\ lastRequest'.rejected > lastRequest.rejected
          => lastRequest'.thrown.type = "ValidationError"
     /\ \A p \in Calls :
          (pipe[p].stage # "finished" /\ pipe'[p].stage = "finished"
             /\ pipe'[p].outcome.kind = "error")
            => LET e == RequestCatch(pipe'[p].outcome.v)
               IN  /\ (pipe[p].stage = "refreshWait"
                         \/ (pipe[p].stage = "replaySent" /\ pipe'[p].replayDenied))
                        => IsAuthenticationError(CauseOf(e))
                   /\ (pipe[p].stage = "sent" /\ rcfg.enabled)
                        => /\ "kind" \in DOMAIN e
                           /\ e.kind = "RetryExhaustedError"
                           /\ e.lastError.type = "ApiError"
                           /\ e.lastError.status \in TransportStatuses]_vars

\* C35: a request issued with skipCache: true never resolves with a response
\* served from the cache (fromCache = true), also when an identical request
\* without skipCache is in flight at the same time.
C35_SkipCacheNeverFromCache ==
  (lastRequest.skipCache /\ nextCall >= 1 /\ Returned(nextCall)
     /\ Result(nextCall).kind = "value")
    => ~Result(nextCall).v.fromCache

\* the operation of request p was answered by the transport with a response
\* that the closure resolved with
SucceededAtTransport(p) ==
  /\ pipe[p].stage = "finished"
  /\ pipe[p].req.method = "GET"
  /\ pipe[p].outcome.kind = "value"
  /\ ~pipe[p].outcome.v.fromCache

\* C36: with cache and deduplication enabled, once a cacheable GET has been
\* sent to the transport and succeeds, every identical GET issued at any later
\* moment before the TTL expires (while the first is in flight, at the moment
\* it settles, or afterwards) causes no further transport call.
C36_NoSecondTransportCall ==
  /\ [](\A c \in Calls : \A p \in calls[c].overlap :
          (ccfg.enabled /\ acfg.interceptors /\ SucceededAtTransport(p))
            => pipe[c].tcalls = 0)
  /\ [][(nextCall' = nextCall + 1 /\ ccfg.enabled /\ acfg.interceptors
           /\ lastRequest'.req.method = "GET"
           /\ \E p \in Calls :
                /\ SucceededAtTransport(p)
                /\ pipe[p].req = lastRequest'.req
                /\ now <= cwrites[WriteKey(pipe[p].req)].at
                            + cwrites[WriteKey(pipe[p].req)].ttl)
          => pipe'[nextCall'].tcalls = 0]_vars

\* C37: after a successful credential refresh triggered by a 401, if the replay
\* of the request fails with an error that is not an authorization failure (a
\* network error or a 5xx response), the newly stored credentials remain
\* stored.
C37_ReplayFailureKeepsCredentials ==
  [][\A p \in Calls :
       (/\ pipe[p].stage = "replaySent"
        /\ pipe'[p].stage # "replaySent"
        /\ ~(pipe'[p].stage = "finished" /\ pipe'[p].outcome.kind = "value")
        /\ ~pipe'[p].replayDenied)
         => (accessToken' = accessToken /\ refreshTok' = refreshTok)]_vars

\* C38: a request issued with skipAuth: true never has a stored credential
\* attached by the client and never triggers a credential refresh, also when
\* the server answers it with 401.
C38_SkipAuthStaysAnonymous ==
  \A p \in Calls :
    pipe[p].skipAuth
      => /\ pipe[p].bearer = 0
         /\ pipe[p].stage # "refreshWait"
         /\ pipe[p].replays = 0

\* C18: a request() call with malformed input (no URL or a blank one, an
\* unknown method, invalid headers, a body on a method without body) is
\* rejected before any other step: no transport call is made, the cache is
\* neither read nor written, and no single-flight entry or counter changes.
C18_MalformedRejectedFirst ==
  [][(lastRequest' # lastRequest /\ lastRequest'.req \in MalformedRequests)
       => /\ lastRequest'.rejected = lastRequest.rejected + 1
          /\ lastRequest'.field # ""
          /\ UNCHANGED <<pipe, cstore, cstats, clast, cwrites>>
          /\ UNCHANGED <<pendingRequests, dstats, ops, calls, nextCall>>
          /\ UNCHANGED <<rstats, authVars>>]_vars

\* a request with a body on GET was rejected while an identical GET without
\* body was in flight and another response was in the cache
C18_Witness ==
  /\ lastRequest.rejected > 0
  /\ lastRequest.field = "data"
  /\ pendingRequests[DedupKeyOf(lastRequest.req)] = NoEntry
  /\ PendingSize(pendingRequests) > 0
  /\ \E p \in Calls : pipe[p].stage = "sent"

\* the store holds an entry for cache key k that has not expired
EntryPresent(k) ==
  \E i \in 1..Len(cstore) : cstore[i].key = BuildKey(k) /\ now <= cstore[i].expiresAt

\* the closure of operation p returned the cached response without doing
\* anything else in this step
ServedFromCache(p) ==
  /\ pipe'[p].stage = "finished"
  /\ pipe'[p].outcome.kind = "value"
  /\ pipe'[p].outcome.v.fromCache
  /\ \E i \in 1..Len(cstore) :
       /\ cstore[i].key = BuildKey(ProbeKey(lastRequest'.req))
       /\ cstore[i].data = SerializeData([status |-> pipe'[p].outcome.v.status,
                                          data |-> pipe'[p].outcome.v.data])
  /\ pipe'[p].tcalls = 0
  /\ rstats' = rstats
  /\ UNCHANGED authVars

\* the backing store answered the cache read of the call issued in this step
LookupAnswered == "Cache lookup failed" \notin pipe'[nextCall'].warnings

\* C19 as stated: a GET issued while its cache entry is present and unexpired
\* (cache enabled), the backing store answering, resolves with the cached response marked fromCache, without
\* a transport call, a counted retry attempt or a credential refresh.
C19_PresentEntryServed ==
  [][(nextCall' = nextCall + 1 /\ ccfg.enabled /\ lastRequest'.req.method = "GET"
        /\ EntryPresent(ProbeKey(lastRequest'.req)) /\ LookupAnswered)
       => ServedFromCache(calls'[nextCall'].promise)]_vars

\* C19, amended: a GET that is not collapsed into an operation in flight and
\* whose cache entry is present and unexpired (cache enabled), the backing
\* store answering, resolves with the cached response marked fromCache, without
\* a transport call, a counted retry attempt or a credential refresh.
C19_CacheHitServed ==
  [][(nextCall' = nextCall + 1 /\ ccfg.enabled /\ lastRequest'.req.method = "GET"
        /\ EntryPresent(ProbeKey(lastRequest'.req)) /\ LookupAnswered
        /\ calls'[nextCall'].promise = nextCall')
       => ServedFromCache(nextCall')]_vars

\* the second call found the response of the first in the cache and was
\* answered from it
C19_Witness ==
  /\ Returned(2)
  /\ calls[2].promise = 2
  /\ Result(2).kind = "value"
  /\ Result(2).v.fromCache
  /\ pipe[2].tcalls = 0
  /\ pipe[1].tcalls > 0

\* the warning is logged for request p in this step
Warned(p, w) == w \in pipe'[p].warnings /\ w \notin pipe[p].warnings

\* C20: a failure of the backing store of the cache never makes the request
\* fail: after a failed read the request goes to the transport as after a
\* miss, and after a failed write the closure returns the response of the
\* transport, which is what the caller receives.
C20_CacheFailureSwallowed ==
  /\ [][\A p \in Calls :
          /\ Warned(p, "Cache lookup failed")
               => /\ pipe'[p].stage = "sent"
                  /\ pipe'[p].tcalls = 1
                  /\ pipe'[p].outcome.kind = "none"
          /\ Warned(p, "Failed to cache response")
               => /\ pipe'[p].stage = "finished"
                  /\ pipe'[p].outcome.kind = "value"
                  /\ pipe'[p].outcome.v = Response(p, pipe[p].tcalls)]_vars
  /\ [](\A c \in Calls :
          (Returned(c) /\ "Failed to cache response" \in pipe[calls[c].promise].warnings)
            => /\ Result(c).kind = "value"
               /\ Result(c).v = Response(calls[c].promise, pipe[calls[c].promise].tcalls))

\* a caller received the response of the transport although the backing store
\* threw both when the cache was probed and when the response was written
C20_Witness ==
  \E c \in Calls :
    /\ Returned(c)
    /\ pipe[calls[c].promise].warnings = {"Cache lookup failed", "Failed to cache response"}
    /\ Result(c).kind = "value"
    /\ ~Result(c).v.fromCache

(***************************************************************************)
(* Claims about the DeduplicationManager                                   *)
(***************************************************************************)

\* C1: every call issued while an operation with the same fingerprint is still
\* running (deduplication enabled) is collapsed into that operation: it awaits
\* the same promise, so the operation is invoked once and all callers receive
\* the same outcome.
C1_ConcurrentCallsCollapsed ==
  \A c \in Calls :
    (dedupEnabled /\ Issued(c) /\ calls[c].overlap # {})
      => calls[c].promise \in calls[c].overlap

\* C2: at most one invocation of the operation is in progress for any
\* fingerprint, in every reachable state of an enabled manager.
C2_AtMostOneInProgress ==
  dedupEnabled => \A k \in AllKeys : Cardinality(RunningOps(k)) <= 1

\* the calls issued before c with the same key as c
PriorCalls(c) ==
  {d \in Calls : d < c /\ Issued(d) /\ ops[calls[d].promise].key = ops[calls[c].promise].key}

\* C10: a call issued when every earlier call with the same fingerprint has
\* already returned to its caller invokes its own operation.
C10_SequentialCallsIndependent ==
  [][\A c \in Calls :
       (~Issued(c) /\ Issued(c)' /\ PriorCalls(c)' # {}
          /\ \A d \in PriorCalls(c)' : Returned(d))
       => (calls'[c].promise = c /\ ops'[c].state = "running")]_vars

\* two sequential calls with the same fingerprint, each with its own operation
C10_Witness ==
  /\ dedupEnabled
  /\ \E c, d \in Calls :
       /\ c < d /\ calls[c].promise = c /\ calls[d].promise = d
       /\ ops[c].key = ops[d].key /\ ops[c].managed /\ ~ops[c].aborted
       /\ calls[d].overlap = {}

(***************************************************************************)
(* Claims about the RetryManager                                           *)
(***************************************************************************)

\* the retry loop runs: config.enabled or options.enabled
EngineActive == rcfg.enabled \/ ropts.enabled

\* the i-th invocation of operation failed with an error the predicate accepts
RetryableFailure(i) ==
  rlog[i].kind = "error" /\ RetryCondition(ropts, rlog[i].lastError)

\* C8: when executeWithRetry has settled, the operation was invoked exactly once
\* if its first failure does not satisfy the retry predicate, exactly
\* maxAttempts times if every attempt failed with a retryable error, and
\* exactly k times, returning the k-th result, if attempt k was the first to
\* succeed.
C8_AttemptCounts ==
  (rpc = "done" /\ EngineActive /\ Len(rlog) >= 1) =>
    /\ (rlog[1].kind = "error" /\ ~RetryCondition(ropts, rlog[1].lastError))
          => Len(rlog) = 1
    /\ (\A i \in 1..Len(rlog) : RetryableFailure(i))
          => Len(rlog) = EffectiveMaxAttempts(ropts)
    /\ \A k \in 1..Len(rlog) :
          rlog[k].kind = "value"
            => /\ Len(rlog) = k
               /\ k <= EffectiveMaxAttempts(ropts)
               /\ rresult = rlog[k]
               /\ \A i \in 1..(k - 1) : RetryableFailure(i)

\* every attempt of a three-attempt policy failed with a retryable error
C8_Witness ==
  /\ rpc = "done" /\ EngineActive /\ EffectiveMaxAttempts(ropts) = 3
  /\ Len(rlog) = 3 /\ \A i \in 1..3 : RetryableFailure(i)

\* C9: when executeWithRetry gives up after invoking the operation, it raises
\* RetryExhausted whose attempts is the number of invocations (1 when no retry
\* occurred) and whose lastError is the error of the last invocation, status and
\* body included.
C9_ExhaustedCarriesLastError ==
  (rpc = "done" /\ EngineActive /\ Len(rlog) >= 1 /\ rresult.kind # "value") =>
    /\ rresult.kind = "RetryExhaustedError"
    /\ rresult.attempts = Len(rlog)
    /\ (rhook = <<>>) => rresult.attempts = 1
    /\ rresult.lastError = rlog[Len(rlog)].lastError
    /\ rresult.lastError.status = rlog[Len(rlog)].lastError.status
    /\ rresult.lastError.data = rlog[Len(rlog)].lastError.data

\* a retry was made and the sequence ended on a 404 response with its body
C9_Witness ==
  /\ rpc = "done" /\ EngineActive
  /\ rresult.kind = "RetryExhaustedError" /\ rresult.attempts = 2
  /\ rresult.lastError.status = 404 /\ rresult.lastError.data = "body404"

\* C25: on an enabled manager, in every state, totalRequests is the number of
\* executeRequest calls made so far, deduplicatedRequests is the number of
\* those that were collapsed into an existing entry, and deduplicationRate is
\* deduplicatedRequests / totalRequests * 100 (its integer part).
C25_StatsMatchCalls ==
  dedupEnabled =>
    /\ dstats.totalRequests = nextCall
    /\ dstats.deduplicatedRequests = Cardinality({c \in 1..nextCall : calls[c].promise # c})
    /\ nextCall > 0
         => dstats.deduplicationRate
              = (dstats.deduplicatedRequests * 100) \div dstats.totalRequests

\* C24: the default retry predicate accepts connection-level failures (DNS
\* failure, connection refused, connection reset, timeout), status 408,
\* status 429 and every 5xx status, and refuses every other 4xx status: after
\* the first of two attempts failed, a retry follows in the first case and
\* none in the second.
C24_DefaultPredicate ==
  (Len(rlog) >= 1 /\ rlog[1].kind = "error") =>
    LET e == rlog[1].lastError
    IN  /\ ((e.status = 0 /\ e.code \in ConnectionErrorCodes)
               \/ e.status \in {408, 429} \/ e.status \in 500..599)
            => Len(rhook) >= 1
        /\ (e.status \in 400..499 /\ e.status \notin {408, 429})
            => rhook = <<>>

\* baseDelay * backoffFactor^(k-1) for the k-th retry
Exponential(k) == rcfg.baseDelay * Pow(rcfg.backoffFactor, k - 1)

Abs(x) == IF x < 0 THEN -x ELSE x

PolicyBaseDelay == IF ropts.baseDelay # Undef THEN ropts.baseDelay ELSE rcfg.baseDelay

\* C30: a per-request retry policy replaces the client-wide policy for that
\* request only: the request is attempted up to the per-request maxAttempts
\* with waits computed from the per-request baseDelay, and a request without a
\* per-request policy uses the client-wide values.
C30_PerRequestPolicy ==
  /\ (rcfg.enabled \/ ropts.enabled) => Len(rlog) <= EffectiveMaxAttempts(ropts)
  /\ (rpc = "done" /\ rresult.kind = "RetryExhaustedError"
        /\ RetryCondition(ropts, rresult.lastError))
       => Len(rlog) = EffectiveMaxAttempts(ropts)
  /\ (rpc = "delay" /\ ~rcfg.jitter /\ ropts.retryDelay = 0)
       => rloop.delay = Min(rcfg.maxDelay,
                            PolicyBaseDelay * Pow(rcfg.backoffFactor, rloop.attempt - 2))

\* C39: for every per-call maxAttempts value (including 0 and negative values),
\* executeWithRetry invokes the operation at least once and settles either
\* with the operation's result or with RetryExhausted carrying an error raised
\* by the operation.
C39_AlwaysOneAttempt ==
  (rpc = "done" /\ (rcfg.enabled \/ ropts.enabled))
    => /\ Len(rlog) >= 1
       /\ \/ rresult.kind = "value"
          \/ (rresult.kind = "RetryExhaustedError" /\ rresult.lastError \in OperationErrors)

C13_EntryRemovedOnSettle ==
  /\ \A c \in Calls :
       (Returned(c) /\ ops[calls[c].promise].managed)
         => pendingRequests[ops[calls[c].promise].key].promise # calls[c].promise
  /\ (nextCall > 0 /\ \A c \in 1..nextCall : Returned(c))
       => /\ \A k \in AllKeys : pendingRequests[k] = NoEntry
          /\ dstats.activeRequests = 0

\* a call and a call collapsed into it have both resumed, one with its own
\* operation's error, and the table is empty
C13_Witness ==
  /\ dedupEnabled /\ nextCall = 2
  /\ calls[1].promise = 1 /\ calls[2].promise = 1
  /\ Returned(1) /\ Returned(2) /\ Result(1).kind = "error"
  /\ \A k \in AllKeys : pendingRequests[k] = NoEntry
  /\ dstats.activeRequests = 0 /\ dstats.deduplicatedRequests = 1

\* C27: when the staleness sweep evicts an entry it aborts the entry's
\* cancellation token, and the execution observes the cancellation: after the
\* eviction the evicted operation makes no further transport call and no
\* further retry.
C27_EvictionStopsExecution ==
  [][\A p \in Calls :
       /\ (\E k \in AllKeys : /\ pendingRequests[k] # NoEntry
                               /\ pendingRequests[k].promise = p
                               /\ Expired(k)
                               /\ pendingRequests'[k] = NoEntry
                               /\ nextSweep' # nextSweep)
             => ops'[p].aborted
       /\ ops[p].aborted => pipe'[p].tcalls = pipe[p].tcalls]_vars

\* C31: when deduplication is disabled, every executeRequest call invokes its
\* own operation, also for concurrent identical requests, and neither the
\* pending table nor the counters change.
C31_DisabledPassesThrough ==
  /\ [](~dedupEnabled => (dstats = InitStats /\ PendingSize(pendingRequests) = 0))
  /\ [][(~dedupEnabled /\ nextCall' = nextCall + 1)
          => /\ ops[nextCall'].state = "unused"
             /\ ops'[nextCall'].state = "running"
             /\ calls'[nextCall'].promise = nextCall'
             /\ UNCHANGED <<pendingRequests, dstats>>]_vars

\* two identical calls on a disabled manager, each running its own operation
C31_Witness ==
  /\ ~dedupEnabled
  /\ \E c, d \in Calls :
       /\ c < d /\ d <= nextCall
       /\ ops[c].key = ops[d].key
       /\ Running(c) /\ Running(d)
       /\ calls[c].promise = c /\ calls[d].promise = d
       /\ c \in calls[d].overlap

\* C32: the settle handler of an operation removes only that operation's own
\* entry: when an entry was evicted (by the sweep or by clear()) and a newer
\* entry was registered for the same key, the later settling of the older
\* operation leaves the newer entry in the table.
C32_FinallyRemovesOwnEntry ==
  [][\A p \in Calls :
       (~ops[p].finallyRan /\ ops'[p].finallyRan)
         => \A k \in AllKeys :
              (pendingRequests[k] # NoEntry /\ pendingRequests[k].promise # p)
                => pendingRequests'[k] = pendingRequests[k]]_vars

\* C33: every refreshToken() call eventually settles whenever the transport
\* answers the refresh request, whatever status the refresh endpoint returns
\* (including 401): handling the refresh request's own response never waits on
\* the refresh that is in flight.
C33_AnsweredRefreshSettles ==
  \A r \in RefreshCalls : (refr[r].state = "posting") ~> RefreshSettled(r)

\* C34: once logout() has resolved, no access credential and no refresh
\* credential is stored (until the next login()), also when a credential
\* refresh was in flight at the moment logout() was called.
C34_LoggedOutStoresNothing ==
  logout.pc = "done" => (accessToken = NoToken /\ refreshTok = 0)

\* C40: in every reachable state of an enabled DeduplicationManager,
\* activeRequests equals the number of entries in the pending table,
\* deduplicatedRequests <= totalRequests, and totalRequests equals
\* deduplicatedRequests plus the number of operations started.
C40_CountersConsistent ==
  dedupEnabled =>
    /\ dstats.activeRequests = Cardinality({k \in AllKeys : pendingRequests[k] # NoEntry})
    /\ dstats.deduplicatedRequests <= dstats.totalRequests
    /\ dstats.totalRequests
         = dstats.deduplicatedRequests + Cardinality({p \in Calls : ops[p].state # "unused"})

\* a call was collapsed, then an eviction emptied the table while an operation
\* was still running, and a later call started a second operation
C40_Witness ==
  /\ dedupEnabled
  /\ dstats.totalRequests = 3 /\ dstats.deduplicatedRequests = 1
  /\ dstats.activeRequests = 1
  /\ \E p, r \in Calls : p # r /\ Running(p) /\ ops[p].aborted /\ Running(r) /\ ~ops[r].aborted

\* C14: a caller whose operation was evicted by the staleness sweep (the
\* interval timer is still installed, so clear() was not the one that aborted
\* it) receives, when it resumes, the cancellation error and nothing else.
C14_EvictedCallersCancelled ==
  \A c \in Calls :
    (Issued(c) /\ cleanupInterval /\ ops[calls[c].promise].aborted /\ Returned(c))
      => Result(c) = CancelledError

(***************************************************************************)
(* Claims about the default fingerprint                                    *)
(***************************************************************************)

\* the name/value pairs of an object
PropSet(v) == {v.props[i] : i \in 1..Len(v.props)}

\* the two values are the same value; for objects, the same properties
SameValue(v, w) ==
  IF v.t = "object" /\ w.t = "object" THEN PropSet(v) = PropSet(w) ELSE v = w

\* same method, URL, body and query parameters
SameRequest(q1, q2) ==
  /\ ToUpperCase(q1.method) = ToUpperCase(q2.method) /\ q1.url = q2.url
  /\ SameValue(q1.data, q2.data) /\ SameValue(q1.params, q2.params)

\* this step issues call c with fingerprint k
IssuedWithKey(c, k) == ~Issued(c) /\ Issued(c)' /\ ops'[calls'[c].promise].key = k

\* C11: two requests with the same method, URL and body whose params hold the
\* same key/value pairs, in whatever key order, get the same fingerprint, and
\* the second is collapsed into the first when the first is still running.
C11_ParamOrderIndependent ==
  [][\A c \in Calls : \A q1, q2 \in FingerprintRequests :
       (dedupEnabled /\ SameRequest(q1, q2) /\ q1.data = q2.data
          /\ RunningOps(Fingerprint(q1)) # {} /\ IssuedWithKey(c, Fingerprint(q2)))
       => /\ Fingerprint(q1) = Fingerprint(q2)
          /\ calls'[c].promise \in RunningOps(Fingerprint(q1))]_vars

\* C12: two concurrent requests that differ in method, URL, body or query
\* parameters get different fingerprints; the second is not collapsed into the
\* first and its own operation is invoked.
C12_DifferentRequestsDistinct ==
  [][\A c \in Calls : \A q1, q2 \in FingerprintRequests :
       (dedupEnabled /\ ~SameRequest(q1, q2)
          /\ RunningOps(Fingerprint(q1)) # {} /\ IssuedWithKey(c, Fingerprint(q2)))
       => /\ Fingerprint(q1) # Fingerprint(q2)
          /\ calls'[c].promise = c /\ ops'[c].state = "running"]_vars

(***************************************************************************)
(* Claims about the AuthManager                                            *)
(***************************************************************************)

\* the caller of refreshToken() call c has received the outcome of its promise
RefreshReturned(c) == rcalls[c].promise # 0 /\ RefreshSettled(rcalls[c].promise)

\* C3: at most one refresh is in flight; a refreshToken() call made while a
\* refresh is pending joins it instead of sending a request; a refresh that is
\* pending or has succeeded has sent exactly one request to the refresh
\* endpoint; the callers of a successful refresh all receive the access
\* credential of its answer.
C3_SingleRefresh ==
  /\ Cardinality({r \in RefreshCalls : RefreshInFlight(r)}) <= 1
  /\ \A c \in RefreshCalls :
       rcalls[c].inflight # {} => rcalls[c].promise \in rcalls[c].inflight
  /\ \A r \in RefreshCalls :
       /\ refr[r].sent <= 1
       /\ (RefreshInFlight(r) \/ refr[r].state = "fulfilled") => refr[r].sent = 1
       /\ refr[r].state = "fulfilled" => refr[r].token = ServerToken(r)
  /\ \A c, d \in RefreshCalls :
       (RefreshReturned(c) /\ RefreshReturned(d) /\ rcalls[d].promise \in rcalls[c].inflight)
         => refr[rcalls[c].promise].token = refr[rcalls[d].promise].token

\* C5: once a refresh has failed, neither an access credential nor a refresh
\* credential is stored.
C5_FailedRefreshClearsCredentials ==
  \A r \in RefreshCalls : refr[r].state = "rejected" => refr[r].left = <<0, 0>>

\* C15: a request issued while the stored token is within refreshThreshold of
\* its expiry never leaves more than one refresh in flight, no refresh sends
\* more than one request, and the request does not wait forever: it goes out,
\* or fails.
C15_ExpiringTokenRequestProceeds ==
  /\ [](/\ Cardinality({r \in RefreshCalls : RefreshInFlight(r)}) <= 1
        /\ \A r \in RefreshCalls : refr[r].sent <= 1)
  /\ \A p \in Calls :
       (pipe[p].stage = "tokenWait") ~> (pipe[p].stage \in {"sent", "finished"})

(***************************************************************************)
(* Claims about the CacheManager                                           *)
(***************************************************************************)

\* the stored key has the pattern among its parts
KeyHasPart(pattern, ck) == pattern \in {ck[i] : i \in 1..Len(ck)}

KeyOrder(store) == [i \in 1..Len(store) |-> store[i].key]

\* C22: the in-memory store never holds more than maxSize entries; a set of
\* a new key on a full store removes exactly the entry inserted earliest and
\* appends the new one; a hit and a set of a key already stored leave the
\* order of the keys as it was.
C22_InsertionOrderEviction ==
  /\ [](Len(cstore) <= ccfg.maxSize)
  /\ [][cops' = cops + 1 =>
          LET ck == BuildKey(clast'.key)
          IN  IF AdapterHas(cstore, ck)
                THEN KeyOrder(cstore') = KeyOrder(cstore)
                ELSE IF clast'.op = "get"
                  THEN cstore' = cstore
                  ELSE /\ Len(cstore') > 0
                       /\ cstore'[Len(cstore')].key = ck
                       /\ cstore' = Append(IF Len(cstore) = ccfg.maxSize
                                             THEN Tail(cstore) ELSE cstore,
                                           cstore'[Len(cstore')])]_vars

\* with room for two: /a was stored first, then /b, then /a was read and
\* overwritten, and the set of /c still removed /a
C22_Witness ==
  /\ ccfg.maxSize = 2
  /\ KeyOrder(cstore) = <<BuildKey(BuildCacheKey("/b", "GET", "", "")),
                          BuildKey(BuildCacheKey("/c", "GET", "", ""))>>
  /\ cwrites[BuildCacheKey("/a", "GET", "", "")].data = "r2"
  /\ ~cwrites[BuildCacheKey("/a", "GET", "", "")].live
  /\ cstats.sets = 4
  /\ cstats.hits = 1

\* the TTL the last set() of key k was written with
WrittenTTL(k) == IF cwrites[k].ttl # Undef THEN cwrites[k].ttl ELSE ccfg.defaultTTL

\* this step is a get(k) of an entry that was written and not taken out by
\* delete, clear, invalidatePattern or capacity eviction
GetOfWritten(k) ==
  /\ cops' = cops + 1 /\ clast'.op = "get" /\ clast'.key = k
  /\ cwrites[k].live

\* C7: an entry written with TTL T (the ttl of the set() call when given, else
\* defaultTTL) is returned, and counted as a hit, by every get made before T has
\* elapsed; a get made after T has elapsed reports it absent, leaves the store
\* without it and counts a miss.
C7_ServedUntilTTL ==
  [][\A k \in CacheKeys :
       GetOfWritten(k) =>
         /\ now - cwrites[k].at < WrittenTTL(k) =>
              /\ clast'.result = cwrites[k].data
              /\ cstats'.hits = cstats.hits + 1 /\ cstats'.misses = cstats.misses
         /\ now - cwrites[k].at > WrittenTTL(k) =>
              /\ clast'.result = Null
              /\ ~AdapterHas(cstore', BuildKey(k))
              /\ cstats'.misses = cstats.misses + 1 /\ cstats'.hits = cstats.hits]_vars

\* an entry written once with a per-request ttl was served before the ttl
\* elapsed and then found expired, removed and counted as a miss
C7_Witness ==
  \E k \in CacheKeys :
    /\ clast = [op |-> "get", key |-> k, result |-> Null]
    /\ cwrites[k].live /\ cwrites[k].ttl # Undef /\ cwrites[k].ttl # ccfg.defaultTTL
    /\ now - cwrites[k].at > WrittenTTL(k)
    /\ cstats.sets = 1 /\ cstats.hits = 1 /\ cstats.misses = 1 /\ cstats.deletes = 1
    /\ cstore = <<>>

\* the refreshes in flight
RefreshesInFlight == {r \in RefreshCalls : RefreshInFlight(r)}

\* C16: a request answered with 401 while a refresh is in flight waits for that
\* refresh and nothing more is sent to the refresh endpoint; the refresh the
\* requests wait for has sent exactly one request; when it has succeeded, each
\* waiting request is sent again, once, with the credential of its answer, and
\* a replay is not replayed.
C16_SharedRefreshReplaysOnce ==
  [][/\ Cardinality(RefreshesInFlight) <= 1
     /\ \A p \in Calls :
          /\ (pipe[p].stage = "refreshWait" /\ RefreshInFlight(pipe[p].waitsOn))
               => refr[pipe[p].waitsOn].sent = 1
          /\ (pipe[p].stage # "refreshWait" /\ pipe'[p].stage = "refreshWait"
                /\ RefreshesInFlight # {})
               => /\ pipe'[p].waitsOn \in RefreshesInFlight
                  /\ \A r \in RefreshCalls : refr'[r].sent = refr[r].sent
          /\ (pipe[p].stage = "refreshWait" /\ refr[pipe[p].waitsOn].state = "fulfilled"
                /\ pipe'[p].stage # "refreshWait")
               => /\ pipe'[p].stage = "replaySent"
                  /\ pipe'[p].tcalls = pipe[p].tcalls + 1
                  /\ pipe'[p].bearer = refr[pipe[p].waitsOn].token.id
          /\ pipe[p].stage = "replaySent"
               => /\ pipe'[p].stage \in {"replaySent", "finished", "backoff"}
                  /\ pipe'[p].tcalls = pipe[p].tcalls]_vars

\* two distinct requests were answered with 401, the second while the refresh
\* started for the first was in flight; one request went to the refresh
\* endpoint and both have been sent again with the new credential
C16_Witness ==
  /\ nextRefreshCall = 2 /\ rcalls[1].promise = 1 /\ rcalls[2].promise = 1
  /\ rcalls[2].inflight = {1}
  /\ refr[1].state = "fulfilled" /\ refr[1].sent = 1 /\ refr[2].sent = 0
  /\ pipe[1].req # pipe[2].req
  /\ \A p \in {1, 2} :
       /\ pipe[p].stage = "replaySent" /\ pipe[p].first = 401 /\ pipe[p].waitsOn = 1
       /\ pipe[p].tcalls = 2 /\ pipe[p].replays = 1 /\ pipe[p].bearer = ServerToken(1).id

(***************************************************************************)
(* Claims about ApiClient.request                                          *)
(***************************************************************************)

\* C4: a request answered with 401 is replayed at most once after a successful
\* refresh; once the replay has been answered with 401 the transport is not
\* invoked again for that request and the request ends with an error; the step
\* in which the replay is denied leaves no stored credentials.
C4_DeniedReplayFails ==
  [][\A p \in Calls :
       /\ pipe'[p].replays <= 1
       /\ (~pipe[p].replayDenied /\ pipe'[p].replayDenied)
            => (pipe'[p].tcalls <= 2 /\ accessToken' = NoToken /\ refreshTok' = 0)
       /\ pipe[p].replayDenied =>
            /\ pipe'[p].tcalls = pipe[p].tcalls
            /\ pipe'[p].stage = "finished" => pipe'[p].outcome.kind = "error"]_vars

\* this step ends an attempt of request p in an authentication failure: the
\* refresh it waited for failed, or its replay was answered with an error
AuthFailureStep(p) ==
  \/ /\ pipe[p].stage = "refreshWait" /\ refr[pipe[p].waitsOn].state = "rejected"
     /\ pipe'[p].stage # "refreshWait"
  \/ /\ pipe[p].stage = "replaySent" /\ pipe'[p].stage # "replaySent"
     /\ pipe'[p].outcome.kind # "value"

\* C17: an attempt that ends in an authentication failure is the last attempt
\* of the request: the retry loop does not schedule another one and the
\* request ends with an error.
C17_AuthFailureNotRetried ==
  [][\A p \in Calls :
       AuthFailureStep(p)
         => (pipe'[p].stage = "finished" /\ pipe'[p].outcome.kind = "error")]_vars

RECURSIVE SumTo(_, _)
\* f[1] + ... + f[n]
SumTo(f, n) == IF n = 0 THEN 0 ELSE f[n] + SumTo(f, n - 1)

\* transport calls and cache writes made so far, over all requests
TotalTransportCalls == SumTo([p \in Calls |-> pipe[p].tcalls], MaxCalls)
TotalCacheWrites == SumTo([p \in Calls |-> pipe[p].writes], MaxCalls)

\* the requests issued so far are identical GETs, all issued before the first
\* one settled, every transport call was answered with a 2xx response, and
\* every caller has resumed
ConcurrentBatchDone ==
  /\ dedupEnabled /\ ccfg.enabled /\ acfg.interceptors
  /\ nextCall >= 2
  /\ \A c \in 1..nextCall :
       /\ c # 1 => 1 \in calls[c].overlap
       /\ Returned(c)
       /\ pipe[calls[c].promise].first = 200

\* C6: N identical GET requests issued concurrently with cache and
\* deduplication enabled and an empty cache make exactly one transport call and
\* exactly one cache write, all N callers resolve with the same response, and
\* deduplicatedRequests has increased by N - 1.
C6_OneCallOneWrite ==
  ConcurrentBatchDone =>
    /\ TotalTransportCalls = 1
    /\ TotalCacheWrites = 1
    /\ \A c \in 1..nextCall : Result(c).kind = "value" /\ Result(c) = Result(1)
    /\ dstats.deduplicatedRequests = nextCall - 1

====
